---- MODULE Spec2Model ----
(***************************************************************************)
(* A model of BPM's template pipeline: parameter resolution, the render    *)
(* plan and its execution, lifecycle hooks, the run entry, publish         *)
(* resolvers, and the project document / ad-hoc meta record they persist.  *)
(*                                                                         *)
(* Python values are written as strings: "2" is the str '2', "int:2" the   *)
(* int 2.  A dict is a function over its possible keys that maps a missing *)
(* key to Absent.  A path is the sequence of its components.              *)
(***************************************************************************)
EXTENDS Integers, Sequences, FiniteSets, TLC

VARIABLES
    project_yaml,   \* the persisted project document (project.yaml)
    meta_yaml,      \* the persisted ad-hoc record (bpm.meta.yaml) of the --out directory
    fs,             \* paths that exist on disk: [dirs, files, exec]
    pc,             \* position of the operation in progress; "done" or "failed" when it
                    \* has returned or raised, "idle" between operations
    kind,           \* "render" | "run" | "publish" | "adopt"
    args,           \* the operation's arguments
    desc,           \* the descriptor the operation loaded
    project,        \* the operation's in-memory project dict (None in ad-hoc mode)
    final_params,   \* render: the resolved parameters; run/publish: the materialized ones
    plan,           \* render: the plan built by _build_plan
    idx,            \* index of the next hook / plan item / resolver
    pub,            \* publish: the values returned by the resolvers so far
    trace,          \* what the operation did so far, in order
    error,          \* the exception the operation ended with, or None
    snap,           \* what was persisted and on disk when the operation started
    nops,           \* operations started so far
    brs_root,       \* the active bundle (stores.yaml: active)
    sys_modules,    \* sys.modules: for each module name, the root it was loaded from
    sys_path,       \* sys.path between calls
    last_call,      \* the last hook or resolver invoked and the root its code came from
    fn_in,          \* a function called on its own: its name and arguments
    fn_out,         \* what that call returned or raised, NotCalled before it
    disk,           \* safe_dump_yaml alone: the target file and its temporary sibling
    dump,           \* safe_dump_yaml alone: the writer's position, document and outcome
    wf_run,         \* workflow run: the locals run_record, status and error_msg
    procs,          \* concurrent operations: each process's position and its copy of the project
    calling,        \* a hook or resolver call step by step: its position and sys.path before it
    store           \* store update: the cache, its staging siblings, the lock and the updaters

opvars == <<project_yaml, meta_yaml, fs, pc, kind, args, desc, project,
            final_params, plan, idx, pub, trace, error, snap, nops>>

\* The step-by-step views of one hook or resolver call and of store updates.
stepvars == <<calling, store>>

impvars == <<brs_root, sys_modules, sys_path, last_call, stepvars>>

fnvars == <<fn_in, fn_out>>

iovars == <<disk, dump>>

\* What the hook and resolver imports leave alone besides the operations.
svcvars == <<wf_run, procs>>

sidevars == <<fnvars, iovars, svcvars>>

\* What the template operations leave alone.
extvars == <<impvars, sidevars>>

vars == <<opvars, impvars, sidevars>>

\* ----------------------------------------------------------------- bounds

\* Parts (literals and placeholders) of one interpolated string.
MaxParts == 3

\* Writes the emitter needs to put one document into a file.
MaxChunks == 2

\* Calls of safe_dump_yaml on one path.
MaxDumps == 2

\* Entries of a dependency or tool list of a descriptor file.
MaxDeps == 1

\* Workflow runs started.
MaxRuns == 2

\* Processes operating on one project at the same time.
MaxProcs == 2

\* Files one descriptor lists under render.files.
MaxFiles == 2

\* Operations (CLI invocations) in one behaviour.
MaxOps == 3

\* ------------------------------------------------------------ python values

None == "<None>"
Absent == "<absent>"

ParamNames == {"p", "q"}
PubKeys == {"k1", "k2"}

\* The project argument of an ad-hoc operation (project = None).
NoneProject == [is_none |-> TRUE]

\* An exception: its type, its message and the names the message lists.
NoError == [exc |-> None]

Raise(exc, msg, names) == [exc |-> exc, msg |-> msg, names |-> names]

EmptyDict(keys) == [k \in keys |-> Absent]

SeqToSet(s) == {s[i] : i \in 1..Len(s)}

\* -------------------------------------------------------------- descriptors

NoHooks == [pre_render |-> <<>>, post_render |-> <<>>, pre_run |-> <<>>, post_run |-> <<>>]

\* The descriptors of the active bundle, as descriptor_loader.load returns them.
\* A source file name is the sequence of its dot-separated parts, a destination
\* the sequence of its path components, render.into the sequence of its
\* components.
\* "ta": two declared parameters, all four hook stages, two publish keys,
\*       a nested destination.  "tb": depends on "ta" and on "tc" (which the
\*       bundle no longer ships), one path parameter, no run entry.
BundleTemplates == {"ta", "tb"}

Descriptor(template_id) ==
    IF template_id = "ta" THEN
        [id |-> "ta",
         params |-> [p |-> [type |-> "str", required |-> FALSE, default |-> "d", exists |-> None],
                     q |-> [type |-> "int", required |-> TRUE, default |-> None, exists |-> None]],
         param_order |-> <<"p", "q">>,
         render_into |-> <<"${ctx.project.name}", "${ctx.template.id}">>,
         render_files |-> << << <<"run", "sh", "j2">>, <<"run.sh">> >>,
                             << <<"data", "txt">>, <<"sub", "data.txt">> >> >>,
         run_entry |-> "run.sh",
         required_templates |-> <<>>,
         publish |-> <<"k1", "k2">>,
         hooks |-> [pre_render |-> <<"hooks.pre">>, post_render |-> <<"hooks.post">>,
                    pre_run |-> <<"hooks.a", "hooks.b">>, post_run |-> <<"hooks.c">>]]
    ELSE
        [id |-> "tb",
         params |-> [p |-> [type |-> "str", required |-> FALSE, default |-> None, exists |-> "dir"]],
         param_order |-> <<"p">>,
         render_into |-> <<"${ctx.project.name}", "${ctx.template.id}">>,
         render_files |-> << << <<"report", "md">>, <<"report.md">> >> >>,
         run_entry |-> None,
         required_templates |-> <<"ta", "tc">>,
         publish |-> <<"k1">>,
         hooks |-> NoHooks]

\* ------------------------------------------------------------ param_resolver

\* int(val): the ints and the numeric strings convert, anything else raises.
ValueError == "<ValueError>"

IntOf(val) ==
    CASE val \in {"int:1", "int:2"} -> val
      [] val = "1" -> "int:1"
      [] val = "2" -> "int:2"
      [] OTHER -> ValueError

TruthyStrings == {"1", "true", "yes", "y", "on"}

_coerce(val, typ) ==
    IF val = None THEN None
    ELSE IF typ = "int" THEN IntOf(val)
    ELSE IF typ = "bool" THEN
        (IF val \in {"bool:True", "bool:False"} THEN val
         ELSE IF val \in TruthyStrings THEN "bool:True" ELSE "bool:False")
    ELSE val

\* interpolate_ctx_string on a string that is one placeholder or holds none
\* (a render.into pattern is kept as the sequence of its components).
HasPlaceholder(s) == s \in {"${ctx.template.id}", "${ctx.project.name}"}

interpolate_ctx_string(s, ctx) ==
    CASE s = "${ctx.template.id}" -> ctx.template.id
      [] s = "${ctx.project.name}" -> ctx.project.name
      [] OTHER -> s

Declared(d) == DOMAIN d.params

\* Step 2 of resolve: every entry whose id equals desc.id overwrites base with
\* its stored params, in list order.
RECURSIVE StoredOver(_, _, _)
StoredOver(base, templates, id) ==
    IF templates = <<>> THEN base
    ELSE LET t == Head(templates)
             b == IF t.id = id
                  THEN [k \in ParamNames |-> IF t.params[k] # Absent THEN t.params[k] ELSE base[k]]
                  ELSE base
         IN StoredOver(b, Tail(templates), id)

\* The id under which resolve looks up the stored parameters.
StoredId(d, ctx_like) == d.id

resolve(d, cli_params, prj, ctx_like) ==
    LET defaults == [k \in ParamNames |->
                        IF k \in Declared(d) /\ d.params[k].default # None
                        THEN d.params[k].default ELSE Absent]
        stored == IF prj # NoneProject THEN StoredOver(defaults, prj.templates, StoredId(d, ctx_like))
                  ELSE defaults
        merged == [k \in ParamNames |->
                        IF k \in Declared(d) /\ cli_params[k] # Absent
                        THEN cli_params[k] ELSE stored[k]]
        coerced == [k \in ParamNames |->
                        IF k \in Declared(d) /\ merged[k] # Absent
                        THEN _coerce(merged[k], d.params[k].type) ELSE merged[k]]
        interp == [k \in ParamNames |->
                        IF HasPlaceholder(coerced[k])
                        THEN interpolate_ctx_string(coerced[k], ctx_like) ELSE coerced[k]]
        missing == SelectSeq(d.param_order, LAMBDA k : d.params[k].required /\ interp[k] = Absent)
    IN  IF \E k \in ParamNames : coerced[k] = ValueError
        THEN [ok |-> FALSE, error |-> Raise("ValueError", "invalid literal for int()", <<>>),
              params |-> coerced]
        ELSE IF missing # <<>>
        THEN [ok |-> FALSE, error |-> Raise("ValueError", "Missing required parameters", missing),
              params |-> interp]
        ELSE [ok |-> TRUE, error |-> NoError, params |-> interp]

\* ------------------------------------------------------------------- io/fs

Prefixes(path) == {SubSeq(path, 1, i) : i \in 1..Len(path)}

Parent(path) == SubSeq(path, 1, Len(path) - 1)

Exists(f, path) == path \in f.dirs \cup f.files

\* Path.mkdir(parents=True, exist_ok=True)
mkdirp(f, path) == [f EXCEPT !.dirs = @ \cup Prefixes(path)]

write_text(f, path) == [mkdirp(f, Parent(path)) EXCEPT !.files = @ \cup {path}]

\* copy_file creates the destination's parents first; shutil.copy2 then raises
\* when the source is missing (src_ok = FALSE).
copy_file(f, src_ok, dst) ==
    IF src_ok THEN [mkdirp(f, Parent(dst)) EXCEPT !.files = @ \cup {dst}]
    ELSE mkdirp(f, Parent(dst))

make_executable(f, path) ==
    IF ~Exists(f, path) THEN f ELSE [f EXCEPT !.exec = @ \cup {path}]

\* ------------------------------------------------------------ core/context

ProjectDir == <<"proj">>
AdhocOut == <<"out">>
Cwd == <<"work">>

build(prj, tpl_id, params, cwd) ==
    [project |-> IF prj # NoneProject
                 THEN [name |-> prj.name, project_path |-> prj.project_path]
                 ELSE NoneProject,
     template |-> [id |-> tpl_id],
     params |-> params,
     cwd |-> cwd]

\* ----------------------------------------------------------- jinja_renderer

\* No source (PlanItem.src = None) is the empty name.
NoSrc == <<>>

PlanItem(action, src, dst) == [action |-> action, src |-> src, dst |-> dst]

_expand_render_into(d, ctx) ==
    ctx.cwd \o [i \in 1..Len(d.render_into) |-> interpolate_ctx_string(d.render_into[i], ctx)]

\* src.endswith(".j2")
EndsWithJ2(src) == Len(src) >= 2 /\ src[Len(src)] = "j2"

\* A variant whose plan leaves the chmod out when the render is dry.
_build_plan_DryNoChmod(d, ctx) ==
    LET target_dir == _expand_render_into(d, ctx)
        files == [i \in 1..Len(d.render_files) |->
                    LET src == d.render_files[i][1]
                        dst == target_dir \o d.render_files[i][2]
                    IN  IF EndsWithJ2(src) THEN PlanItem("render", src, dst)
                        ELSE PlanItem("copy", src, dst)]
        chmod == IF d.run_entry # None /\ ~args.dry
                 THEN <<PlanItem("chmod", NoSrc, target_dir \o <<d.run_entry>>)>>
                 ELSE <<>>
    IN  <<PlanItem("mkdir", NoSrc, target_dir)>> \o files \o chmod

\* A variant that makes the run entry executable before the files are listed.
_build_plan_ChmodFirst(d, ctx) ==
    LET target_dir == _expand_render_into(d, ctx)
        files == [i \in 1..Len(d.render_files) |->
                    LET src == d.render_files[i][1]
                        dst == target_dir \o d.render_files[i][2]
                    IN  IF EndsWithJ2(src) THEN PlanItem("render", src, dst)
                        ELSE PlanItem("copy", src, dst)]
        chmod == IF d.run_entry # None
                 THEN <<PlanItem("chmod", NoSrc, target_dir \o <<d.run_entry>>)>>
                 ELSE <<>>
    IN  <<PlanItem("mkdir", NoSrc, target_dir)>> \o chmod \o files

_build_plan(d, ctx) ==
    LET target_dir == _expand_render_into(d, ctx)
        files == [i \in 1..Len(d.render_files) |->
                    LET src == d.render_files[i][1]
                        dst == target_dir \o d.render_files[i][2]
                    IN  IF EndsWithJ2(src) THEN PlanItem("render", src, dst)
                        ELSE PlanItem("copy", src, dst)]
        chmod == IF d.run_entry # None
                 THEN <<PlanItem("chmod", NoSrc, target_dir \o <<d.run_entry>>)>>
                 ELSE <<>>
    IN  <<PlanItem("mkdir", NoSrc, target_dir)>> \o files \o chmod

\* One iteration of render's loop over the plan: the filesystem after the step
\* and whether the step raised.  src_ok = FALSE: the source is missing
\* (TemplateNotFound, FileNotFoundError) or a render step meets an undefined
\* variable; a render step then raises before it writes.
ExecStep(f, step, src_ok) ==
    CASE step.action = "mkdir" -> [fs |-> mkdirp(f, step.dst), raised |-> FALSE]
      [] step.action = "render" ->
            IF src_ok THEN [fs |-> write_text(f, step.dst), raised |-> FALSE]
            ELSE [fs |-> f, raised |-> TRUE]
      [] step.action = "copy" -> [fs |-> copy_file(f, src_ok, step.dst), raised |-> ~src_ok]
      [] step.action = "chmod" -> [fs |-> make_executable(f, step.dst), raised |-> FALSE]

\* --------------------------------------------------------- template_service

\* An entry of templates[].  source_template is Absent in an entry written by
\* adopt or by an older release; source (adopt's copy of the meta record's
\* source) is kept as its template_id, Absent in an entry written by render.
Entry(id, source_template, status, params, published, source) ==
    [id |-> id, source_template |-> source_template, status |-> status,
     params |-> params, published |-> published, source |-> source]

\* Index of the first entry with this id, 0 when there is none.
FindEntry(templates, tpl_id) ==
    IF \E i \in 1..Len(templates) : templates[i].id = tpl_id
    THEN CHOOSE i \in 1..Len(templates) :
            /\ templates[i].id = tpl_id
            /\ \A j \in 1..(i - 1) : templates[j].id # tpl_id
    ELSE 0

\* A variant that appends an entry without looking for an existing one.
_ensure_template_entry_Append(prj, tpl_id, source_id) ==
    [prj EXCEPT !.templates =
        Append(@, Entry(tpl_id, IF source_id # None THEN source_id ELSE tpl_id, "active",
                        EmptyDict(ParamNames), EmptyDict(PubKeys), Absent))]

_ensure_template_entry(prj, tpl_id, source_id) ==
    IF FindEntry(prj.templates, tpl_id) # 0 THEN prj
    ELSE [prj EXCEPT !.templates =
            Append(@, Entry(tpl_id, IF source_id # None THEN source_id ELSE tpl_id, "active",
                            EmptyDict(ParamNames), EmptyDict(PubKeys), Absent))]

\* A variant that matches dependencies against entry ids only.
DependencyKey_IdOnly(t) == t.id

\* t.get("source_template") or t.get("id")
DependencyKey(t) == IF t.source_template \notin {Absent, ""} THEN t.source_template ELSE t.id

_check_dependencies(d, prj) ==
    LET have == {DependencyKey(prj.templates[i]) : i \in 1..Len(prj.templates)}
    IN  SelectSeq(d.required_templates, LAMBDA dep : dep \notin have)

_hostname == "h"

\* The host of project_path ("h:/proj") in project mode, the machine's name otherwise.
_determine_host_key(prj) == IF prj # NoneProject THEN "h" ELSE _hostname

\* isinstance(val, str): every value but a missing one, None, the ints and the bools.
IsStr(val) == val \notin {Absent, None, "int:1", "int:2", "bool:True", "bool:False"}

\* pathlib's reading of a string: absolute or not, and its components.
PathOf(val) ==
    CASE val = "/proj/in" -> [abs |-> TRUE, parts |-> <<"proj", "in">>]
      [] val = "h:/proj/in" -> [abs |-> FALSE, parts |-> <<"h:", "proj", "in">>]
      [] val = "h:/work/in" -> [abs |-> FALSE, parts |-> <<"h:", "work", "in">>]
      [] OTHER -> [abs |-> FALSE, parts |-> <<val>>]

\* raw.resolve() if raw.is_absolute() else (base / raw).resolve()
ResolvePath(val, base) == IF PathOf(val).abs THEN PathOf(val).parts ELSE base \o PathOf(val).parts

_is_hostpath_string(val) == val \in {"h:/proj/in", "h:/work/in"}

\* f"{host_key}:{resolved.as_posix()}"
HostString(host_key, resolved) ==
    CASE resolved = <<"proj", "in">> -> host_key \o ":/proj/in"
      [] resolved = <<"work", "in">> -> host_key \o ":/work/in"

\* HostPath.from_raw(val).materialize(hosts_map) with no mount prefix configured.
MaterializeHostPath(val) ==
    CASE val = "h:/proj/in" -> "/proj/in"
      [] val = "h:/work/in" -> "/work/in"

\* str(path)
PosixString(path) ==
    CASE path = <<"proj", "in">> -> "/proj/in"
      [] path = <<"work", "in">> -> "/work/in"
      [] OTHER -> "/?"

PathLike(d, params, k) ==
    /\ k \in Declared(d)
    /\ d.params[k].exists # None
    /\ IsStr(params[k])
    /\ params[k] # ""

\* render step 3b: the parameters whose resolved path fails its exists check.
MissingPaths(d, params, base, f) ==
    SelectSeq(d.param_order, LAMBDA k :
        /\ PathLike(d, params, k)
        /\ LET path == ResolvePath(params[k], base)
               kd == d.params[k].exists
           IN  \/ kd = "file" /\ path \notin f.files
               \/ kd = "dir" /\ path \notin f.dirs
               \/ kd = "any" /\ ~Exists(f, path))

_hostify_params(params, d, host_key, base_dir) ==
    [k \in ParamNames |->
        IF PathLike(d, params, k) /\ ~_is_hostpath_string(params[k])
        THEN HostString(host_key, ResolvePath(params[k], base_dir))
        ELSE params[k]]

_materialize_params(params, d, base_dir) ==
    [k \in ParamNames |->
        IF ~PathLike(d, params, k) THEN params[k]
        ELSE IF _is_hostpath_string(params[k]) THEN MaterializeHostPath(params[k])
        ELSE PosixString(ResolvePath(params[k], base_dir))]

\* ------------------------------------------------------ persisted documents

\* bpm.meta.yaml is absent until an ad-hoc render writes it.
NoMeta == [missing |-> TRUE]

\* project.yaml as project_service.init writes it, and the same project holding
\* an entry in the older form (no source_template) for template "tc".
InitProject(templates) ==
    [name |-> "P", project_path |-> "h:/proj", status |-> "initiated", templates |-> templates]

LegacyEntry == Entry("tc", Absent, "active", EmptyDict(ParamNames), EmptyDict(PubKeys), Absent)

InitFs == [dirs |-> {ProjectDir, ProjectDir \o <<"in">>, Cwd, Cwd \o <<"in">>},
           files |-> {}, exec |-> {}]

\* ------------------------------------------------------------------ inputs

Aliases == {None, "x"}

Cli(p, q) == [k \in ParamNames |-> IF k = "p" THEN p ELSE q]

CliChoices == {Cli(Absent, Absent), Cli("c1", "2"), Cli(Absent, "zz"),
               Cli("in", Absent), Cli("nope", Absent)}

InstanceIds == {"ta", "tb", "x", "tc"}

PubValues == {"v1", "v2"}

NoArgs == [template_id |-> None, alias |-> None, cli |-> Cli(Absent, Absent),
           dry |-> FALSE, adhoc |-> FALSE, on_exists |-> None]

\* --------------------------------------------------------------- operations

HookStages == {"pre_render", "post_render", "pre_run", "post_run"}

\* A variant in which run goes from its pre_run hooks straight to the save.
After_SkipScript(stage) ==
    CASE stage = "pre_render" -> "jinja_render"
      [] stage = "post_render" -> "persist"
      [] stage = "pre_run" -> "persist"
      [] stage = "post_run" -> "persist"

\* What follows a hook stage in render and run.
After(stage) ==
    CASE stage = "pre_render" -> "jinja_render"
      [] stage = "post_render" -> "persist"
      [] stage = "pre_run" -> "run_process"
      [] stage = "post_run" -> "persist"

\* if desc.hooks and desc.hooks.get(stage): run_hooks(...)
EnterHooks(stage, d) == IF d.hooks[stage] = <<>> THEN After(stage) ELSE stage

\* instance_id = alias.strip() if alias else template_id
InstanceId(a) == IF a.alias # None THEN a.alias ELSE a.template_id

\* The context of the operation in progress (build_ctx): render and ad-hoc
\* operations under the instance id and their own working directory.
Ctx ==
    build(project, IF kind = "render" THEN InstanceId(args) ELSE args.template_id, final_params,
          IF args.adhoc THEN AdhocOut ELSE ProjectDir)

\* render in ad-hoc mode: replace(desc, render_into=".")
DescEff == IF args.adhoc THEN [desc EXCEPT !.render_into = <<>>] ELSE desc

NoDesc == [id |-> None]

Begin(k, a) ==
    /\ pc = "idle"
    /\ nops < MaxOps
    /\ nops' = nops + 1
    /\ kind' = k
    /\ args' = a
    /\ snap' = [project_yaml |-> project_yaml, meta_yaml |-> meta_yaml, fs |-> fs]
    /\ trace' = <<>>
    /\ idx' = 1
    /\ plan' = <<>>
    /\ pub' = EmptyDict(PubKeys)
    /\ UNCHANGED extvars

\* The operation raises: nothing more is done.
Fail(e) == pc' = "failed" /\ error' = e

\* load_desc: the descriptor file of an id the bundle does not ship cannot be read.
DescriptorError(template_id) == Raise("YamlError", "Failed to read YAML", <<template_id>>)

\* A variant that loads the project document in ad-hoc mode too.
LoadedProject_Always(adhoc) == project_yaml

\* project = None if adhoc_out else load_project(project_dir)
LoadedProject(adhoc) == IF adhoc THEN NoneProject ELSE project_yaml

\* render, lines 188-252: load the descriptor and the project, check the
\* dependencies, resolve and validate the parameters, and in ad-hoc mode create
\* the output directory.
RenderBegin(template_id, alias, cli, dry, adhoc) ==
    LET a == [NoArgs EXCEPT !.template_id = template_id, !.alias = alias, !.cli = cli,
                            !.dry = dry, !.adhoc = adhoc]
        d == Descriptor(template_id)
        prj == LoadedProject(adhoc)
        missing == _check_dependencies(d, prj)
        ctx_like == [project |-> [name |-> IF adhoc THEN "" ELSE prj.name],
                     template |-> [id |-> InstanceId(a)]]
        r == resolve(d, cli, prj, ctx_like)
        missing_paths == MissingPaths(d, r.params, IF adhoc THEN Cwd ELSE ProjectDir, fs)
    IN  /\ Begin("render", a)
        /\ UNCHANGED <<project_yaml, meta_yaml>>
        /\ IF template_id \notin BundleTemplates
           THEN /\ Fail(DescriptorError(template_id))
                /\ desc' = NoDesc /\ project' = NoneProject
                /\ final_params' = EmptyDict(ParamNames) /\ fs' = fs
           ELSE /\ desc' = d
                /\ project' = prj
                /\ IF ~adhoc /\ missing # <<>>
                   THEN /\ Fail(Raise("ValueError", "Missing required templates", missing))
                        /\ final_params' = EmptyDict(ParamNames) /\ fs' = fs
                   ELSE IF ~r.ok
                   THEN /\ Fail(r.error)
                        /\ final_params' = EmptyDict(ParamNames) /\ fs' = fs
                   ELSE IF missing_paths # <<>>
                   THEN /\ Fail(Raise("ValueError", "Input path(s) not found or wrong type",
                                     missing_paths))
                        /\ final_params' = r.params /\ fs' = fs
                   ELSE /\ final_params' = r.params
                        /\ fs' = IF adhoc THEN mkdirp(fs, AdhocOut) ELSE fs
                        /\ pc' = EnterHooks("pre_render", d)
                        /\ error' = NoError

\* A variant that walks the list of hooks from its end.
NextHook_Reversed(hooks, i) == hooks[Len(hooks) + 1 - i]

\* for spec in hooks: the i-th iteration takes the i-th declared hook.
NextHook(hooks, i) == hooks[i]

\* hooks_runner.run, one iteration: import and call the next hook of the stage;
\* a hook that raises aborts the operation.
RunHook(ok) ==
    /\ pc \in HookStages
    /\ LET hooks == desc.hooks[pc]
           spec == NextHook(hooks, idx)
       IN  /\ trace' = Append(trace, [hook |-> spec, stage |-> pc])
           /\ IF ~ok
              THEN Fail(Raise("HookError", "hook raised", <<spec>>)) /\ idx' = idx
              ELSE /\ error' = error
                   /\ IF idx = Len(hooks)
                      THEN pc' = After(pc) /\ idx' = 1
                      ELSE pc' = pc /\ idx' = idx + 1
    /\ UNCHANGED <<project_yaml, meta_yaml, fs, kind, args, desc, project, final_params,
                   plan, pub, snap, nops, extvars>>

\* jinja_renderer.render up to the loop: build the plan; a dry render returns it.
JinjaPlan ==
    /\ pc = "jinja_render"
    /\ plan' = _build_plan(DescEff, Ctx)
    /\ pc' = IF args.dry THEN "done" ELSE "execute"
    /\ idx' = 1
    /\ UNCHANGED <<project_yaml, meta_yaml, fs, kind, args, desc, project, final_params,
                   pub, trace, error, snap, nops, extvars>>

\* jinja_renderer.render, one iteration of the loop over the plan.
PlanStep(src_ok) ==
    /\ pc = "execute"
    /\ LET r == ExecStep(fs, plan[idx], src_ok)
       IN  /\ fs' = r.fs
           /\ trace' = Append(trace, [step |-> plan[idx]])
           /\ IF r.raised
              THEN Fail(Raise("FileNotFoundError", "plan step failed", <<plan[idx].action>>))
                   /\ idx' = idx
              ELSE /\ error' = error
                   /\ IF idx = Len(plan)
                      THEN pc' = EnterHooks("post_render", desc) /\ idx' = 1
                      ELSE pc' = pc /\ idx' = idx + 1
    /\ UNCHANGED <<project_yaml, meta_yaml, kind, args, desc, project, final_params,
                   plan, pub, snap, nops, extvars>>

BrsSource(template_id) == [brs_id |-> "brs", brs_version |-> "1", template_id |-> template_id]

\* render, lines 271-293: hostify the parameters and write the meta record or
\* the project document.
RenderPersist ==
    /\ pc = "persist"
    /\ kind = "render"
    /\ LET base_for_paths == IF args.adhoc THEN Cwd ELSE ProjectDir
           stored_params == _hostify_params(final_params, desc, _determine_host_key(project),
                                            base_for_paths)
           ensured == _ensure_template_entry(project, InstanceId(args), args.template_id)
           i == FindEntry(ensured.templates, InstanceId(args))
           saved == [ensured EXCEPT !.templates[i].params = stored_params,
                                    !.templates[i].status = "active",
                                    !.templates[i].source_template = args.template_id,
                                    !.status = "active"]
       IN  IF args.adhoc
           THEN /\ meta_yaml' = [source |-> BrsSource(args.template_id), params |-> stored_params,
                                 published |-> EmptyDict(PubKeys), status |-> Absent]
                /\ trace' = Append(trace, [save |-> "bpm.meta.yaml"])
                /\ UNCHANGED <<project_yaml, project>>
           ELSE /\ project' = saved
                /\ project_yaml' = saved
                /\ trace' = Append(trace, [save |-> "project.yaml"])
                /\ UNCHANGED meta_yaml
    /\ pc' = "done"
    /\ UNCHANGED <<fs, kind, args, desc, final_params, plan, idx, pub, error, snap, nops, extvars>>

\* _load_meta
MetaError == Raise("FileNotFoundError", "bpm.meta.yaml not found", <<>>)

EntryError(template_id) == Raise("ValueError", "Template not found in project.yaml", <<template_id>>)

\* entry.get("source_template") or template_id
SourceId(entry, template_id) ==
    IF entry.source_template \notin {Absent, ""} THEN entry.source_template ELSE template_id

\* run and publish up to the first hook or resolver: load the descriptor and
\* the meta record (ad-hoc) or the project and its entry, and materialize the
\* stored parameters.  first is the position that follows.
LoadInstance(k, template_id, adhoc, first(_)) ==
    LET a == [NoArgs EXCEPT !.template_id = template_id, !.adhoc = adhoc]
        i == FindEntry(project_yaml.templates, template_id)
        source_id == IF adhoc THEN template_id
                     ELSE SourceId(project_yaml.templates[i], template_id)
        d == Descriptor(source_id)
        stored == IF adhoc THEN meta_yaml.params ELSE project_yaml.templates[i].params
    IN  /\ Begin(k, a)
        /\ UNCHANGED <<project_yaml, meta_yaml, fs>>
        /\ IF adhoc /\ template_id \notin BundleTemplates
           THEN /\ Fail(DescriptorError(template_id))
                /\ desc' = NoDesc /\ project' = NoneProject
                /\ final_params' = EmptyDict(ParamNames)
           ELSE IF adhoc /\ meta_yaml = NoMeta
           THEN /\ Fail(MetaError)
                /\ desc' = d /\ project' = NoneProject
                /\ final_params' = EmptyDict(ParamNames)
           ELSE IF ~adhoc /\ i = 0
           THEN /\ Fail(EntryError(template_id))
                /\ desc' = NoDesc /\ project' = project_yaml
                /\ final_params' = EmptyDict(ParamNames)
           ELSE IF source_id \notin BundleTemplates
           THEN /\ Fail(DescriptorError(source_id))
                /\ desc' = NoDesc /\ project' = project_yaml
                /\ final_params' = EmptyDict(ParamNames)
           ELSE /\ desc' = d
                /\ project' = IF adhoc THEN NoneProject ELSE project_yaml
                /\ final_params' = _materialize_params(stored, d,
                                        IF adhoc THEN AdhocOut ELSE ProjectDir)
                /\ pc' = first(d)
                /\ error' = NoError

\* run, lines 324-364.
RunBegin(template_id, adhoc) ==
    LoadInstance("run", template_id, adhoc, LAMBDA d : EnterHooks("pre_run", d))

\* The directory run executes the entry in: the ad-hoc directory, or
\* project_dir / interpolate_ctx_string(desc.render_into, ctx).
RunDir == IF args.adhoc THEN AdhocOut ELSE _expand_render_into(desc, Ctx)

\* entry = desc.run_entry or "run.sh"
RunEntry == IF desc.run_entry # None THEN desc.run_entry ELSE "run.sh"

\* run_process([f"./{entry}"], cwd=out_dir): subprocess.run raises when the
\* script is missing or not executable; otherwise the script runs and exits
\* with 0 (rc_ok) or not.
RunProcess(rc_ok) ==
    /\ pc = "run_process"
    /\ LET script == RunDir \o <<RunEntry>>
           started == script \in fs.files /\ script \in fs.exec
       IN  /\ trace' = Append(trace, [process |-> RunEntry, cwd |-> RunDir, started |-> started])
           /\ IF ~started
              THEN Fail(Raise("OSError", "cannot execute", <<RunEntry>>))
              ELSE IF ~rc_ok
              THEN Fail(Raise("ProcessError", "Command failed with exit code", <<RunEntry>>))
              ELSE pc' = EnterHooks("post_run", desc) /\ error' = error
    /\ UNCHANGED <<project_yaml, meta_yaml, fs, kind, args, desc, project, final_params,
                   plan, idx, pub, snap, nops, extvars>>

\* A variant that marks every entry of the project completed.
MarkCompleted_All(prj, tpl_id) ==
    [prj EXCEPT !.templates = [i \in 1..Len(prj.templates) |->
                                  [prj.templates[i] EXCEPT !.status = "completed"]]]

\* entry_dict["status"] = "completed"
MarkCompleted(prj, tpl_id) ==
    [prj EXCEPT !.templates[FindEntry(prj.templates, tpl_id)].status = "completed"]

\* A variant that keeps the dict loaded when the run started.
ReloadedProject_Stale == project

\* project = load_project(project_dir), line 380: the document as it is now.
ReloadedProject == project_yaml

\* run, lines 346-348 and 379-383: set the status and save.  Project mode
\* loads project.yaml again first.
RunPersist ==
    /\ pc = "persist"
    /\ kind = "run"
    /\ LET ensured == _ensure_template_entry(ReloadedProject, args.template_id, None)
           saved == MarkCompleted(ensured, args.template_id)
       IN  IF args.adhoc
           THEN /\ meta_yaml' = [meta_yaml EXCEPT !.status = "completed"]
                /\ trace' = Append(trace, [save |-> "bpm.meta.yaml"])
                /\ UNCHANGED <<project_yaml, project>>
           ELSE /\ project' = saved
                /\ project_yaml' = saved
                /\ trace' = Append(trace, [save |-> "project.yaml"])
                /\ UNCHANGED meta_yaml
    /\ pc' = "done"
    /\ UNCHANGED <<fs, kind, args, desc, final_params, plan, idx, pub, error, snap, nops, extvars>>

\* publish, lines 393-418, and resolve_all up to its loop: with no publish
\* section resolve_all returns {} at once.
PublishBegin(template_id, adhoc) ==
    LoadInstance("publish", template_id, adhoc,
                 LAMBDA d : IF d.publish = <<>> THEN "persist" ELSE "resolve_all")

\* A variant that keeps a value already published (setdefault).
SetPublished_KeepExisting(published, key, value) ==
    IF published[key] # Absent THEN published ELSE [published EXCEPT ![key] = value]

\* pub[key] = value
SetPublished(published, key, value) == [published EXCEPT ![key] = value]

\* A variant of the resolve_all iteration that saves the document after each key.
Resolver_SaveEachKey(ok, value) ==
    /\ pc = "resolve_all"
    /\ LET key == desc.publish[idx]
           i == FindEntry(project.templates, args.template_id)
           updated == IF args.adhoc THEN project
                      ELSE [project EXCEPT !.templates[i].published = [@ EXCEPT ![key] = value]]
       IN  /\ trace' = Append(trace, [resolver |-> key, value |-> IF ok THEN value ELSE None])
           /\ IF ~ok
              THEN /\ pc' = "failed"
                   /\ error' = Raise("ResolverError", "resolver raised", <<key>>)
                   /\ UNCHANGED <<idx, pub, project, project_yaml, meta_yaml>>
              ELSE /\ error' = error
                   /\ project' = updated
                   /\ pub' = IF args.adhoc THEN [pub EXCEPT ![key] = value]
                             ELSE updated.templates[i].published
                   /\ project_yaml' = IF args.adhoc THEN project_yaml ELSE updated
                   /\ meta_yaml' = IF args.adhoc THEN [meta_yaml EXCEPT !.published = pub']
                                   ELSE meta_yaml
                   /\ IF idx = Len(desc.publish)
                      THEN pc' = "persist" /\ idx' = 1
                      ELSE pc' = pc /\ idx' = idx + 1
    /\ UNCHANGED <<fs, kind, args, desc, final_params, plan, snap, nops, extvars>>

\* resolve_all, one iteration: import and call the resolver of the next key and
\* store what it returns in the entry's published map (ad-hoc: in the map of
\* the entry created in the empty project passed in).
Resolver(ok, value) ==
    /\ pc = "resolve_all"
    /\ LET key == desc.publish[idx]
           i == FindEntry(project.templates, args.template_id)
       IN  /\ trace' = Append(trace, [resolver |-> key, value |-> IF ok THEN value ELSE None])
           /\ IF ~ok
              THEN /\ Fail(Raise("ResolverError", "resolver raised", <<key>>))
                   /\ UNCHANGED <<idx, pub, project>>
              ELSE /\ error' = error
                   /\ project' = IF args.adhoc THEN project
                                 ELSE [project EXCEPT !.templates[i].published =
                                            SetPublished(@, key, value)]
                   /\ pub' = IF args.adhoc THEN SetPublished(pub, key, value)
                             ELSE SetPublished(project.templates[i].published, key, value)
                   /\ IF idx = Len(desc.publish)
                      THEN pc' = "persist" /\ idx' = 1
                      ELSE pc' = pc /\ idx' = idx + 1
    /\ UNCHANGED <<project_yaml, meta_yaml, fs, kind, args, desc, final_params, plan, snap, nops, extvars>>

\* publish, lines 403-406 and 421: save the meta record or the project.
PublishPersist ==
    /\ pc = "persist"
    /\ kind = "publish"
    /\ IF args.adhoc
       THEN /\ meta_yaml' = [meta_yaml EXCEPT !.published = pub]
            /\ trace' = Append(trace, [save |-> "bpm.meta.yaml"])
            /\ UNCHANGED project_yaml
       ELSE /\ project_yaml' = project
            /\ trace' = Append(trace, [save |-> "project.yaml"])
            /\ UNCHANGED meta_yaml
    /\ pc' = "done"
    /\ UNCHANGED <<fs, kind, args, desc, project, final_params, plan, idx, pub, error, snap, nops, extvars>>

\* ------------------------------------------------------------ project_service

\* _entry_from_meta
_entry_from_meta(meta) ==
    Entry(meta.source.template_id, Absent,
          IF meta.status # Absent THEN meta.status
          ELSE IF meta.published # EmptyDict(PubKeys) THEN "completed" ELSE "active",
          meta.params, meta.published, meta.source.template_id)

Overlay(existing, incoming) ==
    [k \in DOMAIN existing |-> IF incoming[k] # Absent THEN incoming[k] ELSE existing[k]]

\* The meta records of the model name one bundle, so an entry's source never
\* differs from the incoming one and source_prev is never set.
_merge_entries(existing, incoming) ==
    [existing EXCEPT !.params = Overlay(existing.params, incoming.params),
                     !.published = Overlay(existing.published, incoming.published),
                     !.status = incoming.status,
                     !.source = incoming.source]

\* adopt of the one ad-hoc directory.
Adopt(on_exists) ==
    LET a == [NoArgs EXCEPT !.on_exists = on_exists, !.adhoc = TRUE]
        entry_in == _entry_from_meta(meta_yaml)
        i == FindEntry(project_yaml.templates, entry_in.id)
        tlist == IF i = 0 THEN Append(project_yaml.templates, entry_in)
                 ELSE IF on_exists = "skip" THEN project_yaml.templates
                 ELSE IF on_exists = "overwrite"
                 THEN [project_yaml.templates EXCEPT ![i] = entry_in]
                 ELSE [project_yaml.templates EXCEPT ![i] = _merge_entries(@, entry_in)]
        saved == [project_yaml EXCEPT !.templates = tlist]
    IN  /\ Begin("adopt", a)
        /\ desc' = NoDesc
        /\ final_params' = EmptyDict(ParamNames)
        /\ UNCHANGED <<meta_yaml, fs>>
        /\ IF meta_yaml = NoMeta
           THEN /\ Fail(MetaError)
                /\ project' = project_yaml
                /\ UNCHANGED project_yaml
           ELSE /\ pc' = "done"
                /\ error' = NoError
                /\ project' = saved
                /\ project_yaml' = saved

\* The process of the operation exits: what it held in memory is gone, what it
\* persisted and wrote stays.
Exit ==
    /\ pc \in {"done", "failed"}
    /\ pc' = "idle"
    /\ kind' = None
    /\ args' = NoArgs
    /\ desc' = NoDesc
    /\ project' = NoneProject
    /\ final_params' = EmptyDict(ParamNames)
    /\ plan' = <<>>
    /\ idx' = 1
    /\ pub' = EmptyDict(PubKeys)
    /\ trace' = <<>>
    /\ error' = NoError
    /\ snap' = [project_yaml |-> project_yaml, meta_yaml |-> meta_yaml, fs |-> fs]
    /\ UNCHANGED <<project_yaml, meta_yaml, fs, nops, extvars>>

\* ------------------------------------- hooks_runner / publish_resolver imports

\* Names and references are sequences of tokens: identifiers, "." and ":".
\* "resolvers.p:compute" is <<"resolvers", ".", "p", ":", "compute">>.
Has(sep, tokens) == \E i \in 1..Len(tokens) : tokens[i] = sep

FirstAt(sep, tokens) == CHOOSE i \in 1..Len(tokens) :
                            tokens[i] = sep /\ \A j \in 1..(i - 1) : tokens[j] # sep

LastAt(sep, tokens) == CHOOSE i \in 1..Len(tokens) :
                           tokens[i] = sep /\ \A j \in (i + 1)..Len(tokens) : tokens[j] # sep

\* s.split(sep, 1)[0]
SplitHead(sep, tokens) ==
    IF Has(sep, tokens) THEN SubSeq(tokens, 1, FirstAt(sep, tokens) - 1) ELSE tokens

\* s.split(sep, 1)[1]
SplitTail(sep, tokens) == SubSeq(tokens, FirstAt(sep, tokens) + 1, Len(tokens))

\* s.rsplit(sep, 1)
RSplitHead(sep, tokens) == SubSeq(tokens, 1, LastAt(sep, tokens) - 1)

RSplitTail(sep, tokens) == SubSeq(tokens, LastAt(sep, tokens) + 1, Len(tokens))

Bundles == {"A", "B"}

\* The modules every bundle ships, with the functions each defines: the
\* packages hooks and resolvers with one module each, and the module rs at
\* the bundle root.
ModuleFuncs ==
    [m \in {<<"hooks">>, <<"hooks", ".", "pre">>, <<"resolvers">>,
            <<"resolvers", ".", "p">>, <<"rs">>} |->
        CASE m = <<"hooks", ".", "pre">> -> {<<"main">>}
          [] m = <<"resolvers", ".", "p">> -> {<<"main">>, <<"compute">>}
          [] m = <<"rs">> -> {<<"main">>, <<"compute">>}
          [] OTHER -> {}]

Shipped == DOMAIN ModuleFuncs

Packages == {<<"hooks">>, <<"resolvers">>}

HookRefs == {<<"hooks", ".", "pre">>, <<"hooks", ".", "pre", ":", "main">>,
             <<"rs", ":", "compute">>, <<"rs">>}

ResolverRefs == {<<"resolvers", ".", "p">>, <<"resolvers", ".", "p", ":", "compute">>,
                 <<"resolvers", ".", "p", ".", "compute">>, <<"rs", ":", "compute">>,
                 <<"rs">>, <<"rs", ".", "compute">>}

_parse_hook_path(path) ==
    IF Has(":", path) THEN [module |-> SplitHead(":", path), func |-> SplitTail(":", path)]
    ELSE [module |-> path, func |-> <<"main">>]

\* k == prefix or k.startswith(prefix + ".")
UnderPrefix(k, prefix) ==
    \/ k = prefix
    \/ Len(k) > Len(prefix) /\ SubSeq(k, 1, Len(prefix) + 1) = Append(prefix, ".")

_purge_module_prefix(mods, prefix) ==
    [k \in DOMAIN mods |-> IF UnderPrefix(k, prefix) THEN Absent ELSE mods[k]]

\* sys.path.insert(0, str(brs_root)) unless it is there already
PathWith(root, path) ==
    IF \E i \in 1..Len(path) : path[i] = root THEN path ELSE <<root>> \o path

\* The first entry of sys.path that holds a bundle, None when there is none.
FirstRoot(path) ==
    IF \E i \in 1..Len(path) : path[i] \in Bundles
    THEN path[CHOOSE i \in 1..Len(path) :
                 path[i] \in Bundles /\ \A j \in 1..(i - 1) : path[j] \notin Bundles]
    ELSE None

\* importlib.import_module(name), the first n components of it: a module in
\* sys.modules is taken from there; a top-level module is otherwise loaded
\* from the first sys.path entry that has it, a submodule from the directory
\* of its (possibly cached) parent package.
RECURSIVE import_module(_, _, _, _)
import_module(mods, path, name, n) ==
    IF n = 0 THEN [mods |-> mods, ok |-> TRUE]
    ELSE LET r == import_module(mods, path, name, n - 1)
             m == SubSeq(name, 1, 2 * n - 1)
             parent == SubSeq(name, 1, 2 * n - 3)
             origin == IF n = 1 THEN FirstRoot(path) ELSE r.mods[parent]
         IN  IF ~r.ok THEN r
             ELSE IF m \notin Shipped \/ (n > 1 /\ parent \notin Packages) \/ origin = None
             THEN [mods |-> r.mods, ok |-> FALSE]
             ELSE IF r.mods[m] # Absent THEN r
             ELSE [mods |-> [r.mods EXCEPT ![m] = origin], ok |-> TRUE]

Components(name) == (Len(name) + 1) \div 2

\* import_module(module) and getattr(mod, func): the callable's origin, or the error.
Attr(mods, path, module, func) ==
    LET r == import_module(mods, path, module, Components(module))
    IN  IF ~r.ok THEN [mods |-> r.mods, exc |-> "ImportError", impl |-> None]
        ELSE IF func \notin ModuleFuncs[module]
        THEN [mods |-> r.mods, exc |-> "AttributeError", impl |-> None]
        ELSE [mods |-> r.mods, exc |-> None, impl |-> r.mods[module]]

NoCall == [ref |-> <<>>]

Called(by, ref, r) == [by |-> by, ref |-> ref, root |-> brs_root, exc |-> r.exc, impl |-> r.impl]

\* bpm resource activate: another bundle becomes the active one.
Activate(b) ==
    /\ b # brs_root
    /\ brs_root' = b
    /\ UNCHANGED <<opvars, sidevars, stepvars, sys_modules, sys_path, last_call>>

\* hooks_runner: fn = _import_callable(_parse_hook_path(spec)); fn(ctx)
HookImport(spec) ==
    LET call == _parse_hook_path(spec)
        top_pkg == IF Has(".", call.module) THEN SplitHead(".", call.module) ELSE call.module
        purged == _purge_module_prefix(sys_modules, top_pkg)
        r == Attr(purged, PathWith(brs_root, sys_path), call.module, call.func)
    IN  /\ sys_modules' = r.mods
        /\ last_call' = Called("hook", spec, r)
        /\ UNCHANGED <<opvars, sidevars, stepvars, brs_root, sys_path>>

\* publish_resolver: fn = _import_resolver(dotted); fn(ctx)
ResolverImport(dotted) ==
    LET top_pkg == SplitHead(".", dotted)
        purged == _purge_module_prefix(sys_modules, top_pkg)
        path == PathWith(brs_root, sys_path)
        case2 == Attr(purged, path, dotted, <<"main">>)
        r == IF Has(":", dotted)
             THEN Attr(purged, path, SplitHead(":", dotted), SplitTail(":", dotted))
             ELSE IF case2.exc = None THEN case2
             ELSE IF Has(".", dotted)
             THEN Attr(case2.mods, path, RSplitHead(".", dotted), RSplitTail(".", dotted))
             ELSE Attr(case2.mods, path, dotted, <<"main">>)
    IN  /\ sys_modules' = r.mods
        /\ last_call' = Called("resolver", dotted, r)
        /\ UNCHANGED <<opvars, sidevars, stepvars, brs_root, sys_path>>

NotCalled == [called |-> FALSE]

NoFunction == [fn |-> None]

\* No file is being written by safe_dump_yaml called on its own.
NoFile == [missing |-> TRUE]

NoDump ==
    /\ disk = [target |-> NoFile, tmp |-> NoFile]
    /\ dump = [pc |-> "idle", data |-> None, prev |-> NoFile, calls |-> 0]

\* No workflow has been run and no concurrent process exists.
NoRun == [status |-> None]

NoService ==
    /\ wf_run = NoRun
    /\ procs = <<>>

\* No hook or resolver call is followed step by step and no store is updated.
NoSteps ==
    /\ calling = [pc |-> "idle"]
    /\ store = [updating |-> FALSE]

\* A fresh interpreter of the active bundle A.
FreshInterpreter ==
    /\ NoSteps
    /\ brs_root = "A"
    /\ sys_modules = [m \in Shipped |-> Absent]
    /\ sys_path = <<"site-packages">>
    /\ last_call = NoCall

\* The state the template operations start in: no function is called on its own.
InitImports ==
    /\ fn_in = NoFunction
    /\ fn_out = NotCalled
    /\ NoDump
    /\ NoService
    /\ FreshInterpreter

Init ==
    /\ InitImports
    /\ project_yaml \in {InitProject(<<>>), InitProject(<<LegacyEntry>>)}
    /\ meta_yaml = NoMeta
    /\ fs = InitFs
    /\ pc = "idle"
    /\ kind = None
    /\ args = NoArgs
    /\ desc = NoDesc
    /\ project = NoneProject
    /\ final_params = EmptyDict(ParamNames)
    /\ plan = <<>>
    /\ idx = 1
    /\ pub = EmptyDict(PubKeys)
    /\ trace = <<>>
    /\ error = NoError
    /\ snap = [project_yaml |-> project_yaml, meta_yaml |-> meta_yaml, fs |-> fs]
    /\ nops = 0

Next ==
    \/ \E t \in BundleTemplates, al \in Aliases, cli \in CliChoices,
          dry \in BOOLEAN, adhoc \in BOOLEAN : RenderBegin(t, al, cli, dry, adhoc)
    \/ \E ok \in BOOLEAN : RunHook(ok)
    \/ JinjaPlan
    \/ \E src_ok \in BOOLEAN : PlanStep(src_ok)
    \/ RenderPersist
    \/ \E t \in InstanceIds, adhoc \in BOOLEAN : RunBegin(t, adhoc)
    \/ \E rc_ok \in BOOLEAN : RunProcess(rc_ok)
    \/ RunPersist
    \/ \E t \in InstanceIds, adhoc \in BOOLEAN : PublishBegin(t, adhoc)
    \/ \E ok \in BOOLEAN, value \in PubValues : Resolver(ok, value)
    \/ PublishPersist
    \/ \E on_exists \in {"skip", "merge", "overwrite"} : Adopt(on_exists)
    \/ Exit

Spec == Init /\ [][Next]_vars

\* ------------------------------------------------- imports within one process

\* No operation is in progress, whatever the project document holds.
IdleOn ==
    /\ meta_yaml = NoMeta
    /\ fs = InitFs
    /\ pc = "idle"
    /\ kind = None
    /\ args = NoArgs
    /\ desc = NoDesc
    /\ project = NoneProject
    /\ final_params = EmptyDict(ParamNames)
    /\ plan = <<>>
    /\ idx = 1
    /\ pub = EmptyDict(PubKeys)
    /\ trace = <<>>
    /\ error = NoError
    /\ snap = [project_yaml |-> project_yaml, meta_yaml |-> meta_yaml, fs |-> fs]
    /\ nops = 0

\* No operation is in progress in a freshly initialised project.
IdleOps ==
    /\ project_yaml = InitProject(<<>>)
    /\ IdleOn

\* One long-lived process (a test session, an embedding application) between
\* operations: bundles are activated and hooks and resolvers imported and
\* called.  sys.path may already hold a bundle root.
InitImport ==
    /\ NoSteps
    /\ IdleOps
    /\ fn_in = NoFunction
    /\ fn_out = NotCalled
    /\ NoDump
    /\ NoService
    /\ brs_root \in Bundles
    /\ sys_modules = [m \in Shipped |-> Absent]
    /\ sys_path \in {<<"site-packages">>, <<"site-packages", "A">>}
    /\ last_call = NoCall

NextImport ==
    \/ \E b \in Bundles : Activate(b)
    \/ \E spec \in HookRefs : HookImport(spec)
    \/ \E dotted \in ResolverRefs : ResolverImport(dotted)

SpecImport == InitImport /\ [][NextImport]_vars

\* ------------------------------------------------ jinja_renderer.render alone

\* Sequences over S of length at most n.
SeqsUpTo(S, n) == UNION {[1..m -> S] : m \in 0..n}

\* (source, destination) pairs a descriptor may list under render.files: a
\* template and a plain file, rendered beside the target or into a directory
\* below it.
PlanFiles == { << <<"run", "sh", "j2">>, <<"run.sh">> >>,
               << <<"data", "txt">>, <<"sub", "data.txt">> >>,
               << <<"cfg", "j2">>, <<"sub", "deep", "cfg">> >> }

PlanDescriptors ==
    {[Descriptor("ta") EXCEPT !.render_into = ri, !.render_files = files,
                              !.run_entry = re, !.hooks = NoHooks] :
        ri \in {<<>>, <<"${ctx.project.name}", "${ctx.template.id}">>},
        files \in SeqsUpTo(PlanFiles, MaxFiles),
        re \in {None, "run.sh"}}

\* The state in which template_service.render calls jinja_renderer.render: the
\* parameters are resolved and, in ad-hoc mode, the output directory exists.
InitPlan ==
    /\ InitImports
    /\ project_yaml = InitProject(<<>>)
    /\ meta_yaml = NoMeta
    /\ pc = "jinja_render"
    /\ kind = "render"
    /\ \E dry \in BOOLEAN, adhoc \in BOOLEAN :
          /\ args = [NoArgs EXCEPT !.template_id = "ta", !.dry = dry, !.adhoc = adhoc]
          /\ fs = IF adhoc THEN mkdirp(InitFs, AdhocOut) ELSE InitFs
          /\ project = IF adhoc THEN NoneProject ELSE project_yaml
    /\ desc \in PlanDescriptors
    /\ final_params = Cli("d", "int:2")
    /\ plan = <<>>
    /\ idx = 1
    /\ pub = EmptyDict(PubKeys)
    /\ trace = <<>>
    /\ error = NoError
    /\ snap = [project_yaml |-> project_yaml, meta_yaml |-> meta_yaml, fs |-> fs]
    /\ nops = 1

NextPlan ==
    \/ JinjaPlan
    \/ \E src_ok \in BOOLEAN : PlanStep(src_ok)

SpecPlan == InitPlan /\ [][NextPlan]_vars

\* ---------------------------------------------------- utils/interpolate alone

\* A context value is an object or mapping (obj), a string (str) or None.
Obj(attrs) == [kind |-> "obj", attrs |-> attrs]

Str(val) == [kind |-> "str", val |-> val]

NoneValue == [kind |-> "none"]

\* A string is the sequence of its parts: literal text, or a placeholder
\* ${ctx.<path>} with its dotted path split at the dots.
Lit(text) == [lit |-> text]

Placeholder(path) == [path |-> path]

\* One step of _get_attr_path's loop: cur[part] or getattr(cur, part).
\* Anything but an object or mapping holding part raises.
RECURSIVE _get_attr_path(_, _)
_get_attr_path(cur, path) ==
    IF path = <<>> THEN [raised |-> FALSE, val |-> cur]
    ELSE IF cur.kind = "obj" /\ Head(path) \in DOMAIN cur.attrs
    THEN _get_attr_path(cur.attrs[Head(path)], Tail(path))
    ELSE [raised |-> TRUE, val |-> NoneValue]

\* "" if val is None else str(val)
repl(ctx, path) ==
    LET r == _get_attr_path(ctx, path)
    IN  IF r.raised THEN [raised |-> TRUE, text |-> ""]
        ELSE IF r.val.kind = "none" THEN [raised |-> FALSE, text |-> ""]
        ELSE IF r.val.kind = "str" THEN [raised |-> FALSE, text |-> r.val.val]
        ELSE [raised |-> FALSE, text |-> "<object>"]

\* _CTX_PATTERN.sub(repl, s): the parts are replaced from left to right; the
\* first placeholder whose lookup raises ends the call with its exception.
RECURSIVE _CTX_PATTERN_sub(_, _)
_CTX_PATTERN_sub(parts, ctx) ==
    IF parts = <<>> THEN [called |-> TRUE, raised |-> FALSE, text |-> ""]
    ELSE LET part == Head(parts)
             here == IF "lit" \in DOMAIN part THEN [raised |-> FALSE, text |-> part.lit]
                     ELSE repl(ctx, part.path)
             rest == _CTX_PATTERN_sub(Tail(parts), ctx)
         IN  IF here.raised \/ rest.raised
             THEN [called |-> TRUE, raised |-> TRUE, text |-> ""]
             ELSE [called |-> TRUE, raised |-> FALSE, text |-> here.text \o rest.text]

InterpParts == {Lit("a"), Lit("/"), Placeholder(<<"project", "name">>),
                Placeholder(<<"template", "id">>), Placeholder(<<"params", "x">>)}

\* Contexts as build and render's ctx_like make them, and the same with
\* project None (ad-hoc), a name that is None, and no params entry.
InterpCtxs ==
    {Obj([project |-> prj, template |-> Obj([id |-> Str("T")]), params |-> prm]) :
        prj \in {NoneValue, Obj([name |-> Str("P")]), Obj([name |-> NoneValue])},
        prm \in {Obj([x |-> Str("v")]), Obj([y |-> Str("w")])}}

InitInterp ==
    /\ IdleOps
    /\ FreshInterpreter
    /\ NoDump
    /\ NoService
    /\ fn_out = NotCalled
    /\ \E parts \in SeqsUpTo(InterpParts, MaxParts), ctx \in InterpCtxs :
          fn_in = [fn |-> "interpolate_ctx_string", s |-> parts, ctx |-> ctx]

\* interpolate_ctx_string(s, ctx)
Interpolate ==
    /\ fn_in.fn = "interpolate_ctx_string"
    /\ fn_out = NotCalled
    /\ fn_out' = _CTX_PATTERN_sub(fn_in.s, fn_in.ctx)
    /\ UNCHANGED <<opvars, impvars, fn_in, iovars, svcvars>>

SpecInterp == InitInterp /\ [][Interpolate]_vars

\* ------------------------------------------------------- io/yamlio alone

Documents == {"doc1", "doc2"}

\* A file holding the first `chunks` writes of a document.
File(doc, chunks) == [doc |-> doc, chunks |-> chunks]

\* A variant that writes to the path itself.
TmpPath_InPlace == "target"

\* path.with_suffix(path.suffix + ".tmp")
TmpPath == "tmp"

\* safe_dump_yaml(path, data) is called; a process that crashed is restarted.
DumpCall(data) ==
    /\ dump.pc \in {"idle", "returned", "raised", "crashed"}
    /\ dump.calls < MaxDumps
    /\ dump' = [pc |-> "open", data |-> data, prev |-> disk.target, calls |-> dump.calls + 1]
    /\ UNCHANGED <<opvars, impvars, fnvars, svcvars, disk>>

\* open(tmp, "w"): creates or truncates the temporary file, or raises.
DumpOpen(ok) ==
    /\ dump.pc = "open"
    /\ IF ok
       THEN /\ disk' = [disk EXCEPT ![TmpPath] = File(dump.data, 0)]
            /\ dump' = [dump EXCEPT !.pc = "write"]
       ELSE /\ disk' = disk
            /\ dump' = [dump EXCEPT !.pc = "cleanup"]
    /\ UNCHANGED <<opvars, impvars, fnvars, svcvars>>

\* yaml.safe_dump(data, f): one write of the emitter reaches the file, or raises.
DumpWrite(ok) ==
    /\ dump.pc = "write"
    /\ disk[TmpPath].chunks < MaxChunks
    /\ IF ok
       THEN /\ disk' = [disk EXCEPT ![TmpPath] = File(@.doc, @.chunks + 1)]
            /\ dump' = dump
       ELSE /\ disk' = disk
            /\ dump' = [dump EXCEPT !.pc = "cleanup"]
    /\ UNCHANGED <<opvars, impvars, fnvars, svcvars>>

\* The with block is left: the file is closed, or the close raises.
DumpClose(ok) ==
    /\ dump.pc = "write"
    /\ disk[TmpPath].chunks = MaxChunks
    /\ dump' = [dump EXCEPT !.pc = IF ok THEN "replace" ELSE "cleanup"]
    /\ UNCHANGED <<opvars, impvars, fnvars, svcvars, disk>>

\* os.replace(tmp, path): the rename happens as a whole, or raises.
DumpReplace(ok) ==
    /\ dump.pc = "replace"
    /\ IF ok
       THEN /\ disk' = [[disk EXCEPT ![TmpPath] = NoFile] EXCEPT !.target = disk[TmpPath]]
            /\ dump' = [dump EXCEPT !.pc = "returned"]
       ELSE /\ disk' = disk
            /\ dump' = [dump EXCEPT !.pc = "cleanup"]
    /\ UNCHANGED <<opvars, impvars, fnvars, svcvars>>

\* except Exception: unlink the temporary file if it exists, raise YamlError.
DumpCleanup ==
    /\ dump.pc = "cleanup"
    /\ disk' = [disk EXCEPT ![TmpPath] = NoFile]
    /\ dump' = [dump EXCEPT !.pc = "raised"]
    /\ UNCHANGED <<opvars, impvars, fnvars, svcvars>>

\* The process dies between two steps of the write.
DumpCrash ==
    /\ dump.pc \in {"open", "write", "replace", "cleanup"}
    /\ dump' = [dump EXCEPT !.pc = "crashed"]
    /\ UNCHANGED <<opvars, impvars, fnvars, svcvars, disk>>

InitDump ==
    /\ IdleOps
    /\ FreshInterpreter
    /\ fn_in = NoFunction
    /\ fn_out = NotCalled
    /\ NoDump
    /\ NoService

NextDump ==
    \/ \E data \in Documents : DumpCall(data)
    \/ \E ok \in BOOLEAN : DumpOpen(ok)
    \/ \E ok \in BOOLEAN : DumpWrite(ok)
    \/ \E ok \in BOOLEAN : DumpClose(ok)
    \/ \E ok \in BOOLEAN : DumpReplace(ok)
    \/ DumpCleanup
    \/ DumpCrash

SpecDump == InitDump /\ [][NextDump]_vars

\* ---------------------------------------------- descriptor_loader.load alone

\* Values of a key of the descriptor file: the key is absent, holds a list, or
\* (tools) holds a mapping with the keys required and optional.
YAbsent == [kind |-> "absent"]

YList(items) == [kind |-> "list", items |-> items]

YTools(required, optional) == [kind |-> "dict", required |-> required, optional |-> optional]

YLists(S) == {YAbsent} \cup {YList(items) : items \in SeqsUpTo(S, MaxDeps)}

ToolNames == {"git", "jq"}

DescriptorFiles ==
    [required_templates : YLists(BundleTemplates),
     requires : YLists(BundleTemplates),
     tools : YLists(ToolNames)
             \cup {YTools(r, o) : r \in YLists(ToolNames), o \in YLists(ToolNames)}]

\* a or b
Or(a, b) == IF a.kind = "list" /\ a.items # <<>> THEN a ELSE b

\* descriptor_loader.load, the dependency and tools sections.  The name req
\* is bound to the dependency list first and bound again inside the branch
\* that reads a tools mapping.
load(data) ==
    LET deps == Or(data.required_templates, Or(data.requires, YList(<<>>)))
        tools_sec == data.tools
        req == IF tools_sec.kind = "dict" THEN Or(tools_sec.required, YList(<<>>)) ELSE deps
        opt == IF tools_sec.kind = "dict" THEN Or(tools_sec.optional, YList(<<>>)) ELSE YList(<<>>)
        tools_required == IF tools_sec.kind = "list" THEN tools_sec.items
                          ELSE IF tools_sec.kind = "dict" THEN req.items
                          ELSE <<>>
        tools_optional == IF tools_sec.kind = "dict" THEN opt.items ELSE <<>>
    IN  [called |-> TRUE,
         required_templates |-> req.items,
         tools_required |-> tools_required,
         tools_optional |-> tools_optional]

Load ==
    /\ fn_in.fn = "load"
    /\ fn_out = NotCalled
    /\ fn_out' = load(fn_in.data)
    /\ UNCHANGED <<opvars, impvars, fn_in, iovars, svcvars>>

InitLoad ==
    /\ IdleOps
    /\ FreshInterpreter
    /\ NoDump
    /\ NoService
    /\ fn_out = NotCalled
    /\ \E data \in DescriptorFiles : fn_in = [fn |-> "load", data |-> data]

SpecLoad == InitLoad /\ [][Load]_vars

\* ------------------------------------------------------- workflow_service.run

WorkflowIds == {"wa", "wb"}

\* "wa": a required parameter, two pre_run hooks and a post_run hook.
\* "wb": no hooks, no run entry.
WorkflowDescriptor(workflow_id) ==
    IF workflow_id = "wa" THEN
        [id |-> "wa",
         params |-> [p |-> [type |-> "str", required |-> FALSE, default |-> "d", exists |-> None],
                     q |-> [type |-> "int", required |-> TRUE, default |-> None, exists |-> None]],
         param_order |-> <<"p", "q">>,
         run_entry |-> "run.sh",
         hooks |-> [pre_run |-> <<"hooks.a", "hooks.b">>, post_run |-> <<"hooks.c">>]]
    ELSE
        [id |-> "wb",
         params |-> [p |-> [type |-> "str", required |-> FALSE, default |-> "d", exists |-> None]],
         param_order |-> <<"p">>,
         run_entry |-> None,
         hooks |-> [pre_run |-> <<>>, post_run |-> <<>>]]

\* project.yaml with its run history; a document without the key workflows
\* is the document with an empty list (project.setdefault("workflows", [])).
WfProject(templates, workflows) ==
    [name |-> "P", project_path |-> "h:/proj", status |-> "active",
     templates |-> templates, workflows |-> workflows]

\* The parameters run_process declares and the keywords workflow run passes.
RunProcessParams == {"cmd", "cwd"}

WfCallKeywords == {"cmd", "cwd", "env"}

\* A local variable no statement has assigned yet.
Unbound == "<unbound>"

NoRecord == [none |-> TRUE]

\* What a hook does when called: it returns, raises an Exception with a
\* message, raises one without (str(e) == ""), or raises a BaseException that
\* is no Exception (SystemExit, KeyboardInterrupt).
HookOutcomes == {"ok", "raise", "raise_blank", "exit"}

\* run, lines 141-194: load the descriptor and the project, resolve the
\* parameters, find the entry script, and prepare the run record.
WfRunBegin(workflow_id, with_project, cli, entry_ok) ==
    LET d == WorkflowDescriptor(workflow_id)
        prj == IF with_project THEN project_yaml ELSE NoneProject
        ctx_like == [project |-> [name |-> IF with_project THEN prj.name ELSE ""],
                     template |-> [id |-> workflow_id]]
        r == resolve(d, cli, prj, ctx_like)
        entry == IF d.run_entry # None THEN d.run_entry ELSE "run.sh"
    IN  /\ pc = "idle"
        /\ nops < MaxRuns
        /\ nops' = nops + 1
        /\ kind' = "workflow_run"
        /\ args' = [NoArgs EXCEPT !.template_id = workflow_id, !.cli = cli, !.adhoc = ~with_project]
        /\ desc' = d
        /\ project' = prj
        /\ snap' = [project_yaml |-> project_yaml, meta_yaml |-> meta_yaml, fs |-> fs]
        /\ trace' = <<>>
        /\ idx' = 1
        /\ IF ~r.ok
           THEN Fail(r.error) /\ final_params' = EmptyDict(ParamNames) /\ wf_run' = NoRun
           ELSE IF ~entry_ok
           THEN /\ Fail(Raise("FileNotFoundError", "Workflow entry not found", <<entry>>))
                /\ final_params' = r.params /\ wf_run' = NoRun
           ELSE /\ final_params' = r.params
                /\ wf_run' = [status |-> Unbound, error_msg |-> Unbound, raised |-> NoError,
                               run_record |-> IF with_project
                                              THEN [id |-> workflow_id, run_entry |-> entry,
                                                    params |-> r.params, status |-> "running",
                                                    error |-> Absent]
                                              ELSE NoRecord]
                /\ pc' = IF d.hooks["pre_run"] = <<>> THEN "wf_process" ELSE "wf_pre_run"
                /\ error' = NoError
        /\ UNCHANGED <<project_yaml, meta_yaml, fs, plan, pub, impvars, fnvars, iovars, procs>>

\* The try block ran to its end: status = "completed"; error_msg = None.
WfCompleted(run) == [run EXCEPT !.status = "completed", !.error_msg = None]

\* except Exception as e: status = "failed"; error_msg = str(e); raise
WfExcept(run, e, msg) == [run EXCEPT !.status = "failed", !.error_msg = msg, !.raised = e]

\* A BaseException that is no Exception passes the except clause by.
WfUncaught(run, e) == [run EXCEPT !.raised = e]

\* One iteration of run_hooks inside the try block.
WfHook(outcome) ==
    /\ pc \in {"wf_pre_run", "wf_post_run"}
    /\ LET stage == IF pc = "wf_pre_run" THEN "pre_run" ELSE "post_run"
           hooks == desc.hooks[stage]
           spec == NextHook(hooks, idx)
       IN  /\ trace' = Append(trace, [hook |-> spec, stage |-> stage, outcome |-> outcome])
           /\ CASE outcome = "ok" ->
                     IF idx < Len(hooks)
                     THEN pc' = pc /\ idx' = idx + 1 /\ wf_run' = wf_run
                     ELSE IF stage = "pre_run"
                     THEN pc' = "wf_process" /\ idx' = 1 /\ wf_run' = wf_run
                     ELSE pc' = "wf_finally" /\ idx' = 1 /\ wf_run' = WfCompleted(wf_run)
                [] outcome = "raise" ->
                     /\ pc' = "wf_finally" /\ idx' = idx
                     /\ wf_run' = WfExcept(wf_run, Raise("HookError", "hook raised", <<spec>>),
                                           "hook raised")
                [] outcome = "raise_blank" ->
                     /\ pc' = "wf_finally" /\ idx' = idx
                     /\ wf_run' = WfExcept(wf_run, Raise("HookError", "", <<spec>>), "")
                [] outcome = "exit" ->
                     /\ pc' = "wf_finally" /\ idx' = idx
                     /\ wf_run' = WfUncaught(wf_run, Raise("SystemExit", "1", <<spec>>))
    /\ UNCHANGED <<project_yaml, meta_yaml, fs, kind, args, desc, project, final_params,
                   plan, pub, error, snap, nops, impvars, fnvars, iovars, procs>>

\* run_process([str(entry_path)] + args, cwd=wf_dir, env=env): the call binds
\* its keywords to run_process's parameters before the process is started.
WfProcess(rc_ok) ==
    /\ pc = "wf_process"
    /\ LET entry == IF desc.run_entry # None THEN desc.run_entry ELSE "run.sh"
           bound == WfCallKeywords \subseteq RunProcessParams
       IN  /\ trace' = Append(trace, [process |-> entry, cwd |-> <<"workflows", desc.id>>,
                                      started |-> bound, exit_ok |-> bound /\ rc_ok])
           /\ IF ~bound
              THEN /\ pc' = "wf_finally"
                   /\ wf_run' = WfExcept(wf_run,
                                    Raise("TypeError", "unexpected keyword argument", <<"env">>),
                                    "run_process() got an unexpected keyword argument 'env'")
              ELSE IF ~rc_ok
              THEN /\ pc' = "wf_finally"
                   /\ wf_run' = WfExcept(wf_run,
                                    Raise("ProcessError", "Command failed with exit code", <<entry>>),
                                    "Command failed with exit code")
              ELSE IF desc.hooks["post_run"] = <<>>
              THEN pc' = "wf_finally" /\ wf_run' = WfCompleted(wf_run)
              ELSE pc' = "wf_post_run" /\ wf_run' = wf_run
    /\ UNCHANGED <<project_yaml, meta_yaml, fs, kind, args, desc, project, final_params,
                   plan, idx, pub, error, snap, nops, impvars, fnvars, iovars, procs>>

\* finally: with a project, complete the run record from status and
\* error_msg, append it to the project loaded at the start and save; then the
\* pending exception, if any, goes on.  Reading status before any statement
\* assigned it raises UnboundLocalError.
WfFinally ==
    /\ pc = "wf_finally"
    /\ IF wf_run.run_record = NoRecord
       THEN /\ UNCHANGED <<project, project_yaml, trace>>
            /\ IF wf_run.raised = NoError THEN pc' = "done" /\ error' = NoError
               ELSE Fail(wf_run.raised)
       ELSE IF wf_run.status = Unbound
       THEN /\ UNCHANGED <<project, project_yaml, trace>>
            /\ Fail(Raise("UnboundLocalError", "cannot access local variable", <<"status">>))
       ELSE LET rec == [wf_run.run_record EXCEPT
                            !.status = wf_run.status,
                            !.error = IF wf_run.error_msg \notin {None, ""}
                                      THEN wf_run.error_msg ELSE Absent]
                saved == [project EXCEPT !.workflows = Append(@, rec)]
            IN  /\ project' = saved
                /\ project_yaml' = saved
                /\ trace' = Append(trace, [save |-> "project.yaml"])
                /\ IF wf_run.raised = NoError THEN pc' = "done" /\ error' = NoError
                   ELSE Fail(wf_run.raised)
    /\ UNCHANGED <<meta_yaml, fs, kind, args, desc, final_params, plan, idx, pub, snap, nops,
                   wf_run, impvars, fnvars, iovars, procs>>

\* The process of the workflow run exits.
WfExit ==
    /\ pc \in {"done", "failed"}
    /\ pc' = "idle"
    /\ kind' = None
    /\ args' = NoArgs
    /\ desc' = NoDesc
    /\ project' = NoneProject
    /\ final_params' = EmptyDict(ParamNames)
    /\ idx' = 1
    /\ trace' = <<>>
    /\ error' = NoError
    /\ wf_run' = NoRun
    /\ snap' = [project_yaml |-> project_yaml, meta_yaml |-> meta_yaml, fs |-> fs]
    /\ UNCHANGED <<project_yaml, meta_yaml, fs, plan, pub, nops, impvars, fnvars, iovars, procs>>

\* A project with or without a rendered template and an earlier run.
InitWorkflow ==
    /\ FreshInterpreter
    /\ fn_in = NoFunction
    /\ fn_out = NotCalled
    /\ NoDump
    /\ NoService
    /\ \E templates \in {<<>>, <<Entry("ta", "ta", "active", Cli("d", "int:2"),
                                         EmptyDict(PubKeys), Absent)>>} :
          project_yaml = WfProject(templates, <<>>)
    /\ IdleOn

NextWorkflow ==
    \/ \E workflow_id \in WorkflowIds, with_project \in BOOLEAN,
          cli \in {Cli(Absent, Absent), Cli("c1", "2")}, entry_ok \in BOOLEAN :
          WfRunBegin(workflow_id, with_project, cli, entry_ok)
    \/ \E outcome \in HookOutcomes : WfHook(outcome)
    \/ \E rc_ok \in BOOLEAN : WfProcess(rc_ok)
    \/ WfFinally
    \/ WfExit

SpecWorkflow == InitWorkflow /\ [][NextWorkflow]_vars

\* ------------------------------------------- concurrent renders of one project

Processes == 1..MaxProcs

\* Everything but the project document and the processes.
restvars == <<meta_yaml, fs, pc, kind, args, desc, project, final_params, plan, idx, pub,
              trace, error, snap, nops, impvars, fnvars, iovars, wf_run>>

\* The saves made so far.
SavesDone == Cardinality({p \in Processes : procs[p].pc = "done"})

\* render, lines 288-292, on the process's own dict: ensure the entry of the
\* instance and set its params, status and source; the project becomes active.
RenderChange(doc, id, val) ==
    LET ensured == _ensure_template_entry(doc, id, "ta")
        i == FindEntry(ensured.templates, id)
    IN  [ensured EXCEPT !.templates[i].params = Cli(val, "int:2"),
                        !.templates[i].status = "active",
                        !.templates[i].source_template = "ta",
                        !.status = "active"]

\* A variant that applies the change to the document as it is on disk now.
SavedDocument_Reloaded(p) == RenderChange(project_yaml, procs[p].id, procs[p].val)

\* save_project(project_dir, project): the dict the process holds is written.
SavedDocument(p) == procs[p].copy

\* project = load_project(project_dir), line 194: nothing is locked.
ConcLoad(p, id, val) ==
    /\ procs[p].pc = "idle"
    /\ procs' = [procs EXCEPT ![p] = [pc |-> "loaded", id |-> id, val |-> val,
                                      copy |-> project_yaml,
                                      loaded_at |-> SavesDone, saved_at |-> 0]]
    /\ UNCHANGED <<project_yaml, restvars>>

\* Lines 203-292: the render works on its copy.
ConcChange(p) ==
    /\ procs[p].pc = "loaded"
    /\ procs' = [procs EXCEPT ![p].pc = "changed",
                              ![p].copy = RenderChange(@, procs[p].id, procs[p].val)]
    /\ UNCHANGED <<project_yaml, restvars>>

\* Line 293: save_project replaces project.yaml by the process's document.
ConcSave(p) ==
    /\ procs[p].pc = "changed"
    /\ project_yaml' = SavedDocument(p)
    /\ procs' = [procs EXCEPT ![p].pc = "done", ![p].saved_at = SavesDone + 1]
    /\ UNCHANGED restvars

InitConc ==
    /\ IdleOps
    /\ FreshInterpreter
    /\ fn_in = NoFunction
    /\ fn_out = NotCalled
    /\ NoDump
    /\ wf_run = NoRun
    /\ procs = [p \in Processes |->
                   [pc |-> "idle", id |-> None, val |-> None, copy |-> NoneProject,
                    loaded_at |-> 0, saved_at |-> 0]]

NextConc ==
    \/ \E p \in Processes, id \in {"ta", "x", "y"}, val \in {"c1", "c2"} : ConcLoad(p, id, val)
    \/ \E p \in Processes : ConcChange(p)
    \/ \E p \in Processes : ConcSave(p)

SpecConc == InitConc /\ [][NextConc]_vars

\* ------------------------------------- run with nested operations on the project

\* The project after a first render of "ta": its entry is active and the
\* rendered script is in place and executable.
RenderedProject ==
    RenderChange(InitProject(<<>>), "ta", "d")

RenderedFs ==
    LET target == ProjectDir \o <<"P", "ta">>
    IN  make_executable(write_text(mkdirp(InitFs, target), target \o <<"run.sh">>),
                        target \o <<"run.sh">>)

\* What the entry script or a hook of a run may do to project.yaml through
\* bpm itself: publish a value for the running instance, or render another
\* instance.
NestedChanges ==
    {[op |-> "publish", key |-> "k1", value |-> v] : v \in PubValues}
    \cup {[op |-> "render", id |-> "x"]}

NestedResult(doc, id, change) ==
    IF change.op = "publish"
    THEN [doc EXCEPT !.templates[FindEntry(doc.templates, id)].published =
                        SetPublished(@, change.key, change.value)]
    ELSE RenderChange(doc, change.id, "c1")

\* A nested operation completes while the hooks or the entry script of a
\* project-mode run are running.
NestedOperation(change) ==
    /\ kind = "run" /\ ~args.adhoc
    /\ pc \in {"pre_run", "run_process", "post_run"}
    /\ project_yaml' = NestedResult(project_yaml, args.template_id, change)
    /\ project_yaml' # project_yaml
    /\ UNCHANGED <<meta_yaml, fs, pc, kind, args, desc, project, final_params, plan, idx, pub,
                   trace, error, snap, nops, extvars>>

InitRun ==
    /\ InitImports
    /\ project_yaml = RenderedProject
    /\ meta_yaml = NoMeta
    /\ fs = RenderedFs
    /\ pc = "idle"
    /\ kind = None
    /\ args = NoArgs
    /\ desc = NoDesc
    /\ project = NoneProject
    /\ final_params = EmptyDict(ParamNames)
    /\ plan = <<>>
    /\ idx = 1
    /\ pub = EmptyDict(PubKeys)
    /\ trace = <<>>
    /\ error = NoError
    /\ snap = [project_yaml |-> project_yaml, meta_yaml |-> meta_yaml, fs |-> fs]
    /\ nops = 0

NextRun ==
    \/ \E t \in {"ta", "x"} : RunBegin(t, FALSE)
    \/ \E ok \in BOOLEAN : RunHook(ok)
    \/ \E rc_ok \in BOOLEAN : RunProcess(rc_ok)
    \/ \E change \in NestedChanges : NestedOperation(change)
    \/ RunPersist
    \/ Exit

SpecRun == InitRun /\ [][NextRun]_vars

\* ------------------------------------------ one hook or resolver call in steps

\* sys.path.remove(str(brs_root)): without the first occurrence of root.
PathWithout(root, path) ==
    IF \E i \in 1..Len(path) : path[i] = root
    THEN LET i == CHOOSE k \in 1..Len(path) :
                      path[k] = root /\ \A j \in 1..(k - 1) : path[j] # root
         IN  SubSeq(path, 1, i - 1) \o SubSeq(path, i + 1, Len(path))
    ELSE path

\* The module and function a reference names: the hook form, and the cases of
\* _import_resolver in the order it tries them.
CallAttr(by, ref, mods, path) ==
    IF by = "hook"
    THEN LET c == _parse_hook_path(ref) IN Attr(mods, path, c.module, c.func)
    ELSE LET case2 == Attr(mods, path, ref, <<"main">>)
         IN  IF Has(":", ref)
             THEN Attr(mods, path, SplitHead(":", ref), SplitTail(":", ref))
             ELSE IF case2.exc = None THEN case2
             ELSE IF Has(".", ref)
             THEN Attr(case2.mods, path, RSplitHead(".", ref), RSplitTail(".", ref))
             ELSE Attr(case2.mods, path, ref, <<"main">>)

\* _import_callable / _import_resolver up to the try: purge the top-level
\* package and insert the root unless sys.path has it.
CallEnter(by, ref) ==
    LET module == IF by = "hook" THEN _parse_hook_path(ref).module ELSE ref
        top_pkg == IF Has(".", module) THEN SplitHead(".", module) ELSE module
    IN  /\ calling.pc = "idle"
        /\ sys_modules' = _purge_module_prefix(sys_modules, top_pkg)
        /\ sys_path' = PathWith(brs_root, sys_path)
        /\ calling' = [pc |-> "import", by |-> by, ref |-> ref, before |-> sys_path,
                    sys_path_added |-> ~(\E i \in 1..Len(sys_path) : sys_path[i] = brs_root)]
        /\ UNCHANGED <<opvars, sidevars, store, brs_root, last_call>>

\* The try block and its finally: the import and getattr, then the removal of
\* the root if this call inserted it.  The importer returns the callable or
\* raises.
CallImported ==
    /\ calling.pc = "import"
    /\ LET r == CallAttr(calling.by, calling.ref, sys_modules, sys_path)
       IN  /\ sys_modules' = r.mods
           /\ last_call' = Called(calling.by, calling.ref, r)
           /\ calling' = [calling EXCEPT !.pc = IF r.exc = None THEN "invoke" ELSE "raised"]
    /\ sys_path' = IF calling.sys_path_added THEN PathWithout(brs_root, sys_path) ELSE sys_path
    /\ UNCHANGED <<opvars, sidevars, store, brs_root>>

\* rv = fn(ctx): the callable runs and returns or raises.
CallInvoked(ok) ==
    /\ calling.pc = "invoke"
    /\ calling' = [calling EXCEPT !.pc = IF ok THEN "returned" ELSE "raised"]
    /\ UNCHANGED <<opvars, sidevars, store, brs_root, sys_modules, sys_path, last_call>>

\* The caller goes on; the process may make another call.
CallLeave ==
    /\ calling.pc \in {"returned", "raised"}
    /\ calling' = [pc |-> "idle"]
    /\ UNCHANGED <<opvars, sidevars, store, brs_root, sys_modules, sys_path, last_call>>

\* Another bundle is activated between two calls.
CallActivate(b) ==
    /\ calling.pc = "idle"
    /\ b # brs_root
    /\ brs_root' = b
    /\ UNCHANGED <<opvars, sidevars, stepvars, sys_modules, sys_path, last_call>>

NextCall ==
    \/ \E spec \in HookRefs : CallEnter("hook", spec)
    \/ \E dotted \in ResolverRefs : CallEnter("resolver", dotted)
    \/ CallImported
    \/ \E ok \in BOOLEAN : CallInvoked(ok)
    \/ CallLeave
    \/ \E b \in Bundles : CallActivate(b)

SpecCall == InitImport /\ [][NextCall]_vars

\* ------------------------- the same operations in project mode and ad-hoc mode

\* render of template "ta" in project mode, as a whole: resolve with the
\* project's stored parameters, then lines 287-293.  A render that raises
\* leaves the document as it was.
ProjectRendered(doc, cli) ==
    LET d == Descriptor("ta")
        r == resolve(d, cli, doc, [project |-> [name |-> doc.name], template |-> [id |-> "ta"]])
        stored_params == _hostify_params(r.params, d, _determine_host_key(doc), ProjectDir)
        ensured == _ensure_template_entry(doc, "ta", "ta")
        i == FindEntry(ensured.templates, "ta")
    IN  IF ~r.ok THEN doc
        ELSE [ensured EXCEPT !.templates[i].params = stored_params,
                             !.templates[i].status = "active",
                             !.templates[i].source_template = "ta",
                             !.status = "active"]

\* render --out of template "ta", as a whole: resolve without a project, then
\* lines 276-285: the meta record is written as a new dict.
MetaRendered(meta, cli) ==
    LET d == Descriptor("ta")
        r == resolve(d, cli, NoneProject, [project |-> [name |-> ""], template |-> [id |-> "ta"]])
        stored_params == _hostify_params(r.params, d, _determine_host_key(NoneProject), Cwd)
    IN  IF ~r.ok THEN meta
        ELSE [source |-> BrsSource("ta"), params |-> stored_params,
              published |-> EmptyDict(PubKeys), status |-> Absent]

\* run whose hooks and entry script succeed: lines 379-383 and 345-347.  It
\* raises, and changes nothing, without an entry or a meta record.
ProjectRan(doc) ==
    IF FindEntry(doc.templates, "ta") = 0 THEN doc ELSE MarkCompleted(doc, "ta")

MetaRan(meta) ==
    IF meta = NoMeta THEN meta ELSE [meta EXCEPT !.status = "completed"]

\* The published map after the resolvers of desc.publish returned values[key],
\* in order, starting from published.
RECURSIVE Resolved(_, _, _)
Resolved(published, keys, values) ==
    IF keys = <<>> THEN published
    ELSE Resolved(SetPublished(published, Head(keys), values[Head(keys)]), Tail(keys), values)

\* publish whose resolvers succeed: lines 417-418 (the entry's own map is
\* updated) and 402-405 (the map resolved from an empty project replaces the
\* record's).
ProjectPublished(doc, values) ==
    LET i == FindEntry(doc.templates, "ta")
    IN  IF i = 0 THEN doc
        ELSE [doc EXCEPT !.templates[i].published =
                            Resolved(@, Descriptor("ta").publish, values)]

MetaPublished(meta, values) ==
    IF meta = NoMeta THEN meta
    ELSE [meta EXCEPT !.published =
                         Resolved(EmptyDict(PubKeys), Descriptor("ta").publish, values)]

\* One operation on the template, carried out on the project and on the
\* ad-hoc directory with the same arguments.
TwinStep(doc, meta) ==
    /\ project_yaml' = doc
    /\ meta_yaml' = meta
    /\ <<doc, meta>> # <<project_yaml, meta_yaml>>
    /\ UNCHANGED <<fs, pc, kind, args, desc, project, final_params, plan, idx, pub,
                   trace, error, snap, nops, extvars>>

TwinRender(cli) == TwinStep(ProjectRendered(project_yaml, cli), MetaRendered(meta_yaml, cli))

TwinRun == TwinStep(ProjectRan(project_yaml), MetaRan(meta_yaml))

TwinPublish(values) ==
    TwinStep(ProjectPublished(project_yaml, values), MetaPublished(meta_yaml, values))

NextTwin ==
    \/ \E cli \in CliChoices : TwinRender(cli)
    \/ TwinRun
    \/ \E values \in [PubKeys -> PubValues] : TwinPublish(values)

SpecTwin == InitImport /\ [][NextTwin]_vars

\* ------------------------------------------------------- the project's status

\* models/project.py, ProjectState, in declaration order.
ProjectState == <<"initiated", "active", "closed">>

\* The project documents the operations may find: the one init wrote, or one
\* whose status was set to a later state of ProjectState.
InitLifecycle ==
    /\ InitImports
    /\ \E i \in 1..Len(ProjectState) :
          project_yaml = [InitProject(<<>>) EXCEPT !.status = ProjectState[i]]
    /\ IdleOn

NextLifecycle ==
    \/ \E cli \in {Cli(Absent, Absent), Cli("c1", "2")}, dry \in BOOLEAN, adhoc \in BOOLEAN :
          RenderBegin("ta", None, cli, dry, adhoc)
    \/ \E ok \in BOOLEAN : RunHook(ok)
    \/ JinjaPlan
    \/ \E src_ok \in BOOLEAN : PlanStep(src_ok)
    \/ RenderPersist
    \/ RunBegin("ta", FALSE)
    \/ \E rc_ok \in BOOLEAN : RunProcess(rc_ok)
    \/ RunPersist
    \/ PublishBegin("ta", FALSE)
    \/ \E ok \in BOOLEAN : Resolver(ok, "v1")
    \/ PublishPersist
    \/ \E on_exists \in {"skip", "merge", "overwrite"} : Adopt(on_exists)
    \/ Exit

SpecLifecycle == InitLifecycle /\ [][NextLifecycle]_vars

\* ---------------------------------------------------- store_registry.update

\* A directory that does not exist.
Missing == "<missing>"

\* The version in repo.yaml of the bundle at the store's source, and of the
\* bundle cached before any update.  A directory holding a complete bundle
\* is written as that version.
SrcVersion == "2"

CachedVersion == "1"

RepoNotFound == "repo.yaml not found"

Busy == "Another update is in progress for this store"

CopyFailed == "copytree failed"

IdleUpdate == [pc |-> "idle", force |-> FALSE, err |-> None, while_locked |-> FALSE]

\* The steps between _acquire_lock and _release_lock.
CopyAndSwap == {"mkdtemp", "copy", "rm_backup", "to_backup", "to_dest", "rm_backup_again",
                "cleanup", "release"}

\* A variant of the lock that is taken with exist_ok=True.
_acquire_lock_ExistOk(lock) == TRUE

\* lock_path.mkdir(exist_ok=False): succeeds unless the directory exists.
_acquire_lock(lock) == ~lock

UpdRaise(p, msg) == [store EXCEPT !.upd[p].pc = "raised", !.upd[p].err = msg]

UpdGoto(p, to) == [store EXCEPT !.upd[p].pc = to]

UpdFrame == UNCHANGED <<opvars, sidevars, brs_root, sys_modules, sys_path, last_call, calling>>

\* update, lines 203-225 with check=False: read the versions of the cache and
\* of the source and decide whether to copy.
UpdateBegin(p, force) ==
    /\ store.upd[p].pc = "idle"
    /\ LET do_copy == force \/ SrcVersion # store.cache
           began == [store EXCEPT !.upd[p].force = force, !.upd[p].while_locked = store.lock]
       IN  store' = IF store.cache = Missing
                    THEN [began EXCEPT !.upd[p].pc = "raised", !.upd[p].err = RepoNotFound]
                    ELSE [began EXCEPT !.upd[p].pc = IF do_copy THEN "acquire" ELSE "reread"]
    /\ UpdFrame

\* _acquire_lock(lock), line 239: outside the try, so a failure releases nothing.
UpdateAcquire(p) ==
    /\ store.upd[p].pc = "acquire"
    /\ store' = IF _acquire_lock(store.lock)
                THEN [store EXCEPT !.lock = TRUE, !.upd[p].pc = "mkdtemp"]
                ELSE UpdRaise(p, Busy)
    /\ UpdFrame

\* tempfile.mkdtemp(prefix=..., dir=parent), line 243: a directory of its own.
UpdateMkdtemp(p) ==
    /\ store.upd[p].pc = "mkdtemp"
    /\ store' = [store EXCEPT !.tmp[p] = "empty", !.upd[p].pc = "copy"]
    /\ UpdFrame

\* _copy_brs_tree(src, tmp_dir), line 245: the whole tree, or an exception
\* that leaves a part of it.
UpdateCopy(p, ok) ==
    /\ store.upd[p].pc = "copy"
    /\ store' = IF ok
                THEN [store EXCEPT !.tmp[p] = SrcVersion, !.upd[p].pc = "rm_backup"]
                ELSE [store EXCEPT !.tmp[p] = "partial", !.upd[p].pc = "cleanup",
                                   !.upd[p].err = CopyFailed]
    /\ UpdFrame

\* _atomic_replace_dir, lines 162-163: a backup left behind is removed.
UpdateRmBackup(p) ==
    /\ store.upd[p].pc = "rm_backup"
    /\ store' = [store EXCEPT !.bak = Missing, !.upd[p].pc = "to_backup"]
    /\ UpdFrame

\* _atomic_replace_dir, lines 164-165: dest.rename(backup) if dest exists.
UpdateToBackup(p) ==
    /\ store.upd[p].pc = "to_backup"
    /\ store' = IF store.cache # Missing
                THEN [store EXCEPT !.bak = store.cache, !.cache = Missing,
                                   !.upd[p].pc = "to_dest"]
                ELSE UpdGoto(p, "to_dest")
    /\ UpdFrame

\* _atomic_replace_dir, line 166: src_tmp.rename(dest).
UpdateToDest(p) ==
    /\ store.upd[p].pc = "to_dest"
    /\ store' = [store EXCEPT !.cache = store.tmp[p], !.tmp[p] = Missing,
                              !.upd[p].pc = "rm_backup_again"]
    /\ UpdFrame

\* _atomic_replace_dir, lines 167-168.
UpdateRmBackupAgain(p) ==
    /\ store.upd[p].pc = "rm_backup_again"
    /\ store' = [store EXCEPT !.bak = Missing, !.upd[p].pc = "cleanup"]
    /\ UpdFrame

\* The inner finally, lines 247-250: the temporary directory is removed if it
\* is still there.
UpdateCleanup(p) ==
    /\ store.upd[p].pc = "cleanup"
    /\ store' = [store EXCEPT !.tmp[p] = Missing, !.upd[p].pc = "release"]
    /\ UpdFrame

\* The outer finally, lines 251-252: _release_lock; then the exception goes
\* on, or update goes on to line 254.
UpdateRelease(p) ==
    /\ store.upd[p].pc = "release"
    /\ store' = [store EXCEPT
                    !.lock = FALSE,
                    !.upd = [q \in Processes |->
                                IF q = p
                                THEN [store.upd[q] EXCEPT
                                         !.pc = IF store.upd[q].err # None THEN "raised"
                                                ELSE "reread"]
                                ELSE [store.upd[q] EXCEPT !.while_locked = FALSE]]]
    /\ UpdFrame

\* Lines 254-262: the cache's repo.yaml is read again and the index saved.
UpdateReread(p) ==
    /\ store.upd[p].pc = "reread"
    /\ store' = IF store.cache = Missing THEN UpdRaise(p, RepoNotFound)
                ELSE UpdGoto(p, "returned")
    /\ UpdFrame

\* The process of the update exits.
UpdateExit(p) ==
    /\ store.upd[p].pc \in {"returned", "raised"}
    /\ store' = [store EXCEPT !.upd[p] = IdleUpdate]
    /\ UpdFrame

InitStore ==
    /\ IdleOps
    /\ fn_in = NoFunction
    /\ fn_out = NotCalled
    /\ NoDump
    /\ NoService
    /\ brs_root = "A"
    /\ sys_modules = [m \in Shipped |-> Absent]
    /\ sys_path = <<"site-packages">>
    /\ last_call = NoCall
    /\ calling = [pc |-> "idle"]
    /\ store = [cache |-> CachedVersion, bak |-> Missing, lock |-> FALSE,
                tmp |-> [p \in Processes |-> Missing],
                upd |-> [p \in Processes |-> IdleUpdate]]

NextStore ==
    \/ \E p \in Processes, force \in BOOLEAN : UpdateBegin(p, force)
    \/ \E p \in Processes : UpdateAcquire(p)
    \/ \E p \in Processes : UpdateMkdtemp(p)
    \/ \E p \in Processes, ok \in BOOLEAN : UpdateCopy(p, ok)
    \/ \E p \in Processes : UpdateRmBackup(p)
    \/ \E p \in Processes : UpdateToBackup(p)
    \/ \E p \in Processes : UpdateToDest(p)
    \/ \E p \in Processes : UpdateRmBackupAgain(p)
    \/ \E p \in Processes : UpdateCleanup(p)
    \/ \E p \in Processes : UpdateRelease(p)
    \/ \E p \in Processes : UpdateReread(p)
    \/ \E p \in Processes : UpdateExit(p)

SpecStore == InitStore /\ [][NextStore]_vars

\* ------------------------------------ concurrent saves of one project document

\* No file of that name, and no open file.
NoInode == -1

\* A byte range no write has filled.
Hole == -1

\* The document a process saves is named after the process; 0 is the
\* document on disk before.  A file holding a whole document is
\* MaxChunks writes of it.
Complete(doc) == [i \in 1..MaxChunks |-> doc]

\* f.write at offset pos of the open file: the file grows to pos if needed.
WriteAt(content, pos, doc) ==
    [i \in 1..(IF pos > Len(content) THEN pos ELSE Len(content)) |->
        IF i = pos THEN doc ELSE IF i <= Len(content) THEN content[i] ELSE Hole]

SaveFrame == UNCHANGED <<opvars, impvars, fnvars, dump, wf_run>>

SaveGoto(p, to) == [procs EXCEPT ![p].pc = to]

\* open(tmp, "w") with tmp = project.yaml.tmp, lines 21-23: the file of that
\* name is truncated if there is one, created otherwise.
SaveOpen(p) ==
    /\ procs[p].pc = "idle"
    /\ LET inode == IF disk.tmp = NoInode THEN p ELSE disk.tmp
       IN  /\ disk' = [disk EXCEPT !.tmp = inode, !.inodes[inode] = <<>>]
           /\ procs' = [procs EXCEPT ![p] = [pc |-> "write", fd |-> inode, off |-> 0]]
    /\ SaveFrame

\* yaml.safe_dump(data, f), line 24: one write reaches the open file at the
\* writer's own offset.
SaveWrite(p) ==
    /\ procs[p].pc = "write"
    /\ procs[p].off < MaxChunks
    /\ disk' = [disk EXCEPT !.inodes[procs[p].fd] = WriteAt(@, procs[p].off + 1, p)]
    /\ procs' = [procs EXCEPT ![p].off = @ + 1]
    /\ SaveFrame

\* The with block is left.
SaveClose(p) ==
    /\ procs[p].pc = "write"
    /\ procs[p].off = MaxChunks
    /\ procs' = [procs EXCEPT ![p].pc = "replace", ![p].fd = NoInode]
    /\ UNCHANGED disk
    /\ SaveFrame

\* os.replace(tmp, path), line 25: raises when no file has the name.
SaveReplace(p) ==
    /\ procs[p].pc = "replace"
    /\ IF disk.tmp = NoInode
       THEN /\ procs' = SaveGoto(p, "except")
            /\ UNCHANGED disk
       ELSE /\ disk' = [disk EXCEPT !.target = disk.tmp, !.tmp = NoInode]
            /\ procs' = SaveGoto(p, "returned")
    /\ SaveFrame

\* except Exception, lines 26-32: tmp is unlinked if a file has the name, and
\* YamlError is raised.
SaveExcept(p) ==
    /\ procs[p].pc = "except"
    /\ disk' = [disk EXCEPT !.tmp = NoInode]
    /\ procs' = SaveGoto(p, "raised")
    /\ SaveFrame

InitSave ==
    /\ IdleOps
    /\ FreshInterpreter
    /\ fn_in = NoFunction
    /\ fn_out = NotCalled
    /\ dump = [pc |-> "idle", data |-> None, prev |-> NoFile, calls |-> 0]
    /\ wf_run = NoRun
    /\ disk = [target |-> 0, tmp |-> NoInode,
               inodes |-> [i \in 0..MaxProcs |-> IF i = 0 THEN Complete(0) ELSE <<>>]]
    /\ procs = [p \in Processes |-> [pc |-> "idle", fd |-> NoInode, off |-> 0]]

NextSave ==
    \/ \E p \in Processes : SaveOpen(p)
    \/ \E p \in Processes : SaveWrite(p)
    \/ \E p \in Processes : SaveClose(p)
    \/ \E p \in Processes : SaveReplace(p)
    \/ \E p \in Processes : SaveExcept(p)

SpecSave == InitSave /\ [][NextSave]_vars

\* ------------------------------------------- host-aware paths, value by value

\* A path string is the sequence of its names, "/" and ":" characters:
\* "/data/in" is <<"/", "data", "/", "in">>.

\* Path(val).is_absolute()
IsAbsolute(s) == Len(s) > 0 /\ s[1] = "/"

\* Path(val).parts without the root.
PathParts(s) == SelectSeq(s, LAMBDA t : t # "/")

\* as_posix() / str() of the absolute path with these parts.
AsPosix(parts) ==
    IF parts = <<>> THEN <<"/">>
    ELSE [i \in 1..(2 * Len(parts)) |-> IF i % 2 = 1 THEN "/" ELSE parts[i \div 2]]

\* raw.resolve() if raw.is_absolute() else (base_dir / raw).resolve()
LocalPath(val, base_dir) ==
    IF IsAbsolute(val) THEN PathParts(val) ELSE PathParts(base_dir) \o PathParts(val)

\* _is_hostpath_string: host, rest = val.split(":", 1); bool(host) and rest.startswith("/")
IsHostPathString(val) ==
    /\ Has(":", val)
    /\ SplitHead(":", val) # <<>>
    /\ IsAbsolute(SplitTail(":", val))

\* _hostify_params, lines 110-123, for one value.
hostify(val, host_key, base_dir) ==
    IF IsHostPathString(val) THEN val
    ELSE <<host_key, ":">> \o AsPosix(LocalPath(val, base_dir))

\* HostPath.from_raw of a string with a colon: PurePosixPath normalises the path.
from_raw(raw) ==
    [host |-> SplitHead(":", raw), abs_posix |-> AsPosix(PathParts(SplitTail(":", raw)))]

\* HostPath.materialize(hosts_cfg, fallback_prefix=None)
materialize(hp, hosts_cfg) ==
    LET known == Len(hp.host) = 1 /\ hp.host[1] \in DOMAIN hosts_cfg
                 /\ hosts_cfg[hp.host[1]].present
        prefix == IF known THEN hosts_cfg[hp.host[1]].mount_prefix ELSE <<>>
    IN  IF prefix = <<>> THEN hp.abs_posix
        ELSE AsPosix(PathParts(prefix) \o PathParts(hp.abs_posix))

\* _materialize_params, lines 136-150, for one value.
materialize_value(val, hosts_cfg, base_dir) ==
    IF IsHostPathString(val) THEN materialize(from_raw(val), hosts_cfg)
    ELSE AsPosix(LocalPath(val, base_dir))

\* What hosts.yaml may say about one host: nothing, an entry without a mount
\* prefix, an entry with one.
HostEntries ==
    {[present |-> FALSE, mount_prefix |-> <<>>],
     [present |-> TRUE, mount_prefix |-> <<>>],
     [present |-> TRUE, mount_prefix |-> <<"/", "mnt", "/", "h">>]}

HostKeys == {"h", "g"}

\* Values of a parameter that declares exists, as given to render: relative
\* to the base directory or absolute.
PathValues ==
    {<<"in">>, <<"sub", "/", "in">>, <<"/", "data", "/", "in">>,
     <<"/", "mnt", "/", "h", "/", "data">>, <<"/", "data">>}

BaseDirs == {<<"/", "proj">>, <<"/", "work">>}

\* render validates and persists the value (lines 218-243, 271-273); run or
\* publish materializes what was persisted (lines 359 and 417).
PersistAndMaterialize ==
    /\ fn_in.fn = "hostpath"
    /\ fn_out = NotCalled
    /\ LET stored == hostify(fn_in.val, fn_in.host_key, fn_in.base_dir)
       IN  fn_out' = [validated |-> AsPosix(LocalPath(fn_in.val, fn_in.base_dir)),
                      stored |-> stored,
                      local |-> materialize_value(stored, fn_in.hosts, fn_in.base_dir)]
    /\ UNCHANGED <<opvars, impvars, fn_in, iovars, svcvars>>

InitHostPath ==
    /\ IdleOps
    /\ FreshInterpreter
    /\ NoDump
    /\ NoService
    /\ fn_out = NotCalled
    /\ \E val \in PathValues, host_key \in HostKeys, base_dir \in BaseDirs,
          hosts \in [HostKeys -> HostEntries] :
          fn_in = [fn |-> "hostpath", val |-> val, host_key |-> host_key,
                   base_dir |-> base_dir, hosts |-> hosts]

SpecHostPath == InitHostPath /\ [][PersistAndMaterialize]_vars

\* ----------------------------------------------------------------- claims

\* Positions of a render whose parameters are resolved and validated.
RenderResolved == {"pre_render", "jinja_render", "execute", "post_render", "persist", "done"}

\* The entry of an instance in a project document, and whether it has one.
HasEntry(doc, id) == FindEntry(doc.templates, id) # 0

EntryOf(doc, id) == doc.templates[FindEntry(doc.templates, id)]

\* The value the three tiers give parameter k of the render in progress: the
\* CLI value, else the value stored in the entry of the instance being
\* rendered, else the descriptor default; then coerced to the declared type.
C1_TierValue(k) ==
    IF args.cli[k] # Absent THEN args.cli[k]
    ELSE IF ~args.adhoc /\ HasEntry(snap.project_yaml, InstanceId(args))
            /\ EntryOf(snap.project_yaml, InstanceId(args)).params[k] # Absent
    THEN EntryOf(snap.project_yaml, InstanceId(args)).params[k]
    ELSE IF desc.params[k].default # None THEN desc.params[k].default
    ELSE Absent

\* C1: parameter resolution gives each declared parameter the CLI-supplied
\* value when one is supplied, otherwise the value stored for the instance in
\* its templates[] entry when one exists, otherwise the descriptor default.
C1_Precedence ==
    (kind = "render" /\ pc \in RenderResolved) =>
        \A k \in Declared(desc) :
            final_params[k] = IF C1_TierValue(k) = Absent THEN Absent
                              ELSE _coerce(C1_TierValue(k), desc.params[k].type)

\* C7: a render called with dry=True changes nothing: no directory or file is
\* created, no filesystem action runs, and neither the project document nor
\* the meta record is written, in project mode and in ad-hoc mode.
C7_DryChangesNothing ==
    (kind = "render" /\ args.dry) =>
        /\ fs = snap.fs
        /\ project_yaml = snap.project_yaml
        /\ meta_yaml = snap.meta_yaml
        /\ \A i \in 1..Len(trace) : "hook" \in DOMAIN trace[i]

\* A step changes the status of the entry of instance id, an operation other
\* than adopt being in progress.
C3_StatusChanges(id) ==
    /\ kind' # "adopt"
    /\ HasEntry(project_yaml, id) /\ HasEntry(project_yaml', id)
    /\ EntryOf(project_yaml, id).status # EntryOf(project_yaml', id).status

\* The step is the save of a successful run of instance id, which completes it.
C3_CompletedByRun(id) ==
    /\ kind = "run" /\ pc = "persist" /\ pc' = "done" /\ args.template_id = id
    /\ EntryOf(project_yaml, id).status = "active"
    /\ EntryOf(project_yaml', id).status = "completed"

\* The step is the save of a successful render of instance id, which makes a
\* completed entry active again.
C3_ReactivatedByRender(id) ==
    /\ kind = "render" /\ pc = "persist" /\ pc' = "done" /\ InstanceId(args) = id
    /\ EntryOf(project_yaml, id).status = "completed"
    /\ EntryOf(project_yaml', id).status = "active"

\* C3 as stated: under any sequence of render, run and publish operations the
\* status of an entry changes only from active to completed and only through
\* a successful run; it never goes back to active.
C3_OnlyActiveToCompleted ==
    [][\A id \in InstanceIds : C3_StatusChanges(id) => C3_CompletedByRun(id)]_vars

\* C3 amended: the status of an entry changes from active to completed only
\* through a successful run of that instance, and from completed back to
\* active only through a successful re-render of that instance; publish and
\* failed or dry operations never change it.
C3_StatusTransitions ==
    [][\A id \in InstanceIds :
          C3_StatusChanges(id) => C3_CompletedByRun(id) \/ C3_ReactivatedByRender(id)]_vars

C3_Witness ==
    /\ kind = "render" /\ pc = "done" /\ ~args.adhoc /\ ~args.dry
    /\ HasEntry(snap.project_yaml, InstanceId(args))
    /\ EntryOf(snap.project_yaml, InstanceId(args)).status = "completed"
    /\ EntryOf(project_yaml, InstanceId(args)).status = "active"

\* The persisted form of a resolved parameter: a path-like value that is not
\* yet a host string becomes host:/resolved/path, any other value is kept.
C4_Persisted(k) ==
    IF k \in Declared(desc) /\ desc.params[k].exists # None /\ IsStr(final_params[k])
       /\ final_params[k] # "" /\ final_params[k] \notin {"h:/proj/in", "h:/work/in"}
    THEN "h:" \o PosixString(ResolvePath(final_params[k], ProjectDir))
    ELSE final_params[k]

\* C4: templates[] never holds two entries with the same instance id, and
\* after a successful project-mode render the one entry of the rendered
\* instance holds the parameters that render resolved (in persisted form),
\* whatever an earlier render had stored.
C4_OneEntryPerInstance ==
    /\ \A i, j \in 1..Len(project_yaml.templates) :
          project_yaml.templates[i].id = project_yaml.templates[j].id => i = j
    /\ (kind = "render" /\ pc = "done" /\ ~args.adhoc /\ ~args.dry) =>
          /\ Cardinality({i \in 1..Len(project_yaml.templates) :
                             project_yaml.templates[i].id = InstanceId(args)}) = 1
          /\ \A k \in ParamNames :
                EntryOf(project_yaml, InstanceId(args)).params[k] = C4_Persisted(k)

C4_Witness ==
    /\ kind = "render" /\ pc = "done" /\ ~args.adhoc /\ ~args.dry
    /\ HasEntry(snap.project_yaml, InstanceId(args))
    /\ EntryOf(snap.project_yaml, InstanceId(args)).params["p"] = "c1"
    /\ EntryOf(project_yaml, InstanceId(args)).params["p"] = "in"
    /\ Len(project_yaml.templates) = Len(snap.project_yaml.templates)

\* The saves recorded in the trace of the operation in progress.
SaveEvents == {i \in 1..Len(trace) : "save" \in DOMAIN trace[i]}

\* C5: a render, run or publish that fails at any step leaves the persisted
\* project document and meta record as they were when it started; the
\* document is written once, as the last step of a successful operation, and
\* not before.
C5_FailureLeavesDocuments ==
    /\ pc # "done" => /\ project_yaml = snap.project_yaml
                      /\ meta_yaml = snap.meta_yaml
                      /\ SaveEvents = {}
    /\ pc = "done" => SaveEvents \subseteq {Len(trace)}

C5_Witness ==
    /\ kind = "publish" /\ pc = "failed" /\ ~args.adhoc
    /\ Len(trace) = 2
    /\ project # snap.project_yaml
    /\ project_yaml = snap.project_yaml

\* The required ids that match no entry's source_template, nor the id of an
\* entry that has no source_template, in the project the render started from.
C8_Missing ==
    {dep \in SeqToSet(Descriptor(args.template_id).required_templates) :
        ~\E i \in 1..Len(snap.project_yaml.templates) :
            LET t == snap.project_yaml.templates[i]
            IN  dep = IF t.source_template # Absent THEN t.source_template ELSE t.id}

DependencyFailure == error.exc # None /\ error.msg = "Missing required templates"

\* C8: a project-mode render of a template with a missing dependency fails
\* with an error naming every missing id before any hook runs, any file is
\* written or any state is persisted; with all dependencies present, and in
\* ad-hoc mode, render never fails on dependencies.
C8_DependencyCheck ==
    kind = "render" =>
        IF ~args.adhoc /\ C8_Missing # {}
        THEN /\ pc = "failed"
             /\ DependencyFailure
             /\ SeqToSet(error.names) = C8_Missing
             /\ trace = <<>>
             /\ fs = snap.fs
             /\ project_yaml = snap.project_yaml /\ meta_yaml = snap.meta_yaml
        ELSE ~DependencyFailure

C8_Witness ==
    /\ kind = "render" /\ pc = "failed" /\ DependencyFailure
    /\ error.names = <<"tc">>
    /\ HasEntry(snap.project_yaml, "x")
    /\ EntryOf(snap.project_yaml, "x").source_template = "ta"

\* What a recorded event is: a hook of a stage, the script, a resolver, a save.
EventLabel(e) ==
    IF "hook" \in DOMAIN e THEN <<e.stage, e.hook>>
    ELSE IF "process" \in DOMAIN e THEN <<"process", e.process>>
    ELSE IF "save" \in DOMAIN e THEN <<"save", "">>
    ELSE IF "resolver" \in DOMAIN e THEN <<"resolver", e.resolver>>
    ELSE <<"step", "">>

TraceLabels == [i \in 1..Len(trace) |-> EventLabel(trace[i])]

\* The template a run executes: the entry's source_template, else its id.
C9_Source ==
    IF args.adhoc THEN args.template_id
    ELSE LET e == EntryOf(snap.project_yaml, args.template_id)
         IN  IF e.source_template # Absent THEN e.source_template ELSE e.id

\* The events of a complete run of descriptor d: each pre_run hook once and in
\* order, the entry script, each post_run hook once and in order, the save.
C9_Expected(d) ==
    [i \in 1..Len(d.hooks.pre_run) |-> <<"pre_run", d.hooks.pre_run[i]>>]
    \o << <<"process", IF d.run_entry # None THEN d.run_entry ELSE "run.sh">> >>
    \o [i \in 1..Len(d.hooks.post_run) |-> <<"post_run", d.hooks.post_run[i]>>]
    \o << <<"save", "">> >>

C9_Completed ==
    IF args.adhoc THEN meta_yaml.status = "completed"
    ELSE EntryOf(project_yaml, args.template_id).status = "completed"

\* C9: a project-mode run of an instance without an entry fails before any
\* hook or process starts; otherwise the pre_run hooks, the entry script and
\* the post_run hooks run in that order, each at most once, and the status
\* completed is persisted exactly when all of them succeeded: a failed run
\* leaves the persisted documents as they were.
C9_RunOrder ==
    kind = "run" =>
        IF (~args.adhoc /\ ~HasEntry(snap.project_yaml, args.template_id))
           \/ C9_Source \notin BundleTemplates
           \/ (args.adhoc /\ snap.meta_yaml = NoMeta)
        THEN pc = "failed" /\ trace = <<>>
             /\ project_yaml = snap.project_yaml /\ meta_yaml = snap.meta_yaml
        ELSE LET expected == C9_Expected(Descriptor(C9_Source))
             IN  /\ Len(trace) <= Len(expected)
                 /\ TraceLabels = SubSeq(expected, 1, Len(trace))
                 /\ pc = "done" <=> Len(trace) = Len(expected)
                 /\ pc = "done" => C9_Completed /\ error = NoError
                 /\ pc # "done" => /\ project_yaml = snap.project_yaml
                                   /\ meta_yaml = snap.meta_yaml
                 /\ pc = "failed" => Len(trace) >= 1 /\ "save" \notin DOMAIN trace[Len(trace)]

C9_Witness ==
    /\ kind = "run" /\ pc = "done" /\ ~args.adhoc
    /\ Len(trace) = 5
    /\ EntryOf(snap.project_yaml, args.template_id).status = "active"
    /\ EntryOf(project_yaml, args.template_id).status = "completed"

\* The value the resolver of key returned in the publish in progress.
C10_Returned(key) ==
    LET i == CHOOSE i \in 1..Len(trace) :
                 "resolver" \in DOMAIN trace[i] /\ trace[i].resolver = key
    IN  trace[i].value

\* The published values of the instance in the given documents.
C10_Published(doc, meta) ==
    IF args.adhoc THEN meta.published ELSE EntryOf(doc, args.template_id).published

\* C10: after a successful publish the persisted published[key] of the
\* instance is the value the resolver of key returned in this pass, for every
\* declared key and whatever was stored before; a publish whose resolvers
\* return the values already published leaves the persisted documents
\* unchanged.
C10_PublishOverwrites ==
    (kind = "publish" /\ pc = "done") =>
        LET keys == SeqToSet(desc.publish)
            before == C10_Published(snap.project_yaml, snap.meta_yaml)
            after == C10_Published(project_yaml, meta_yaml)
        IN  /\ \A key \in keys : after[key] = C10_Returned(key)
            /\ (/\ \A key \in keys : before[key] = C10_Returned(key)
                /\ args.adhoc => \A key \in PubKeys \ keys : before[key] = Absent)
               => project_yaml = snap.project_yaml /\ meta_yaml = snap.meta_yaml

C10_Witness ==
    /\ kind = "publish" /\ pc = "done" /\ ~args.adhoc
    /\ EntryOf(snap.project_yaml, args.template_id).published["k1"] = "v1"
    /\ EntryOf(project_yaml, args.template_id).published["k1"] = "v2"
    /\ EntryOf(project_yaml, args.template_id).published["k2"]
         = EntryOf(snap.project_yaml, args.template_id).published["k2"]

\* The plan of the render in progress, item by item from the descriptor: the
\* mkdir of the target, a render or copy per listed file, the chmod of the
\* run entry when one is declared.  It does not read dry.
C2_ExpectedPlan ==
    LET target == _expand_render_into(DescEff, Ctx)
        n == Len(desc.render_files)
        m == IF desc.run_entry = None THEN n + 1 ELSE n + 2
    IN  [i \in 1..m |->
            IF i = 1 THEN [action |-> "mkdir", src |-> <<>>, dst |-> target]
            ELSE IF i = n + 2
            THEN [action |-> "chmod", src |-> <<>>, dst |-> Append(target, desc.run_entry)]
            ELSE LET f == desc.render_files[i - 1]
                 IN  [action |-> IF f[1][Len(f[1])] = "j2" THEN "render" ELSE "copy",
                      src |-> f[1], dst |-> target \o f[2]]]

\* The plan is the same for a dry and a non-dry render; a dry render executes
\* nothing; a non-dry render executes the plan's items one by one and in plan
\* order, and completes only when every item has been executed.
C2_Parity ==
    /\ plan = C2_ExpectedPlan
    /\ args.dry => pc = "done" /\ trace = <<>> /\ fs = snap.fs
    /\ ~args.dry =>
          /\ Len(trace) <= Len(plan)
          /\ \A i \in 1..Len(trace) : trace[i] = [step |-> plan[i]]
          /\ pc = "persist" => Len(trace) = Len(plan)
          /\ pc = "execute" => idx = Len(trace) + 1

\* The paths created since the render started.
C2_Created == (fs.dirs \ snap.fs.dirs) \cup (fs.files \ snap.fs.files)

\* The executed items of the given actions.
C2_Executed(actions) ==
    {trace[i].step : i \in {j \in 1..Len(trace) : trace[j].step.action \in actions}}

C6_TopLevel(ref) == <<ref[1]>>

\* C6: the hook or resolver a reference names is executed from the bundle
\* that is active when it is invoked, and after the invocation no cached
\* module at or under the reference's top-level package comes from another
\* bundle.
C6_ActiveBundleImplementation ==
    (last_call # NoCall /\ last_call.exc = None) =>
        /\ last_call.impl = last_call.root
        /\ brs_root = last_call.root =>
              \A m \in Shipped :
                  (sys_modules[m] # Absent /\ m[1] = C6_TopLevel(last_call.ref)[1])
                      => sys_modules[m] = brs_root

MissingParameters == error.exc # None /\ error.msg = "Missing required parameters"

\* C11: a project-mode render under an alias takes its stored tier from the
\* entry whose id is that alias: every declared parameter without a CLI
\* value gets the value stored in the alias's entry (else the default), and
\* the render reports a required parameter missing only when neither the
\* CLI, nor the alias's entry, nor the default gives it a value.
C11_AliasStoredTier ==
    (kind = "render" /\ ~args.adhoc /\ args.alias # None /\ args.alias # args.template_id) =>
        /\ pc \in RenderResolved =>
              \A k \in Declared(desc) :
                  (args.cli[k] = Absent /\ C1_TierValue(k) # Absent) =>
                      final_params[k] = _coerce(C1_TierValue(k), desc.params[k].type)
        /\ (pc = "failed" /\ MissingParameters) =>
              \E k \in Declared(desc) : desc.params[k].required /\ C1_TierValue(k) = Absent

\* The value a dotted path leads to in a context, None when the path passes
\* through None or through something that does not hold the next name.
RECURSIVE C13_Lookup(_, _)
C13_Lookup(cur, path) ==
    IF path = <<>> THEN cur
    ELSE IF cur.kind = "obj" /\ Head(path) \in DOMAIN cur.attrs
    THEN C13_Lookup(cur.attrs[Head(path)], Tail(path))
    ELSE NoneValue

RECURSIVE C13_Expected(_, _)
C13_Expected(parts, ctx) ==
    IF parts = <<>> THEN ""
    ELSE LET part == Head(parts)
             v == IF "lit" \in DOMAIN part THEN Str(part.lit) ELSE C13_Lookup(ctx, part.path)
         IN  (IF v.kind = "str" THEN v.val ELSE "") \o C13_Expected(Tail(parts), ctx)

\* C13: interpolate_ctx_string never fails on a missing value: it returns the
\* string with every placeholder replaced by the value at its path, and by
\* the empty string when the path ends at None or passes through an absent
\* or None branch.
C13_MissingBecomesEmpty ==
    (fn_in.fn = "interpolate_ctx_string" /\ fn_out # NotCalled) =>
        /\ ~fn_out.raised
        /\ fn_out.text = C13_Expected(fn_in.s, fn_in.ctx)

\* The required parameters that no tier gives a value, in declaration order.
C12_MissingRequired ==
    SelectSeq(desc.param_order, LAMBDA k : desc.params[k].required /\ C1_TierValue(k) = Absent)

\* The merged values, coerced to their declared types.
C12_Merged ==
    [k \in ParamNames |->
        IF k \in Declared(desc) /\ C1_TierValue(k) # Absent
        THEN _coerce(C1_TierValue(k), desc.params[k].type) ELSE Absent]

\* The parameters declaring exists whose resolved path is absent or of the
\* wrong kind in the filesystem the render started with.
C12_BadPaths ==
    MissingPaths(desc, C12_Merged, IF args.adhoc THEN Cwd ELSE ProjectDir, snap.fs)

\* Nothing has been done: no hook, no filesystem action, no state write.
C12_Untouched ==
    /\ trace = <<>>
    /\ fs = snap.fs
    /\ project_yaml = snap.project_yaml
    /\ meta_yaml = snap.meta_yaml

\* A render that got as far as parameter validation (its descriptor loaded,
\* its dependencies present, its values of the declared types).
C12_Validated ==
    /\ kind = "render" /\ pc # "idle" /\ desc # NoDesc
    /\ ~(pc = "failed" /\ error.exc # None
         /\ error.msg \in {"Missing required templates", "invalid literal for int()"})

\* C12: parameter validation reports all offenders in one error: render fails
\* with one error naming every required parameter without a value after the
\* three tiers are merged; when none is missing, with one error listing every
\* parameter declaring exists whose resolved path is absent or of the wrong
\* kind; both before any hook, filesystem action or state write; and render
\* passes validation when nothing is missing and every such path is right.
C12_ReportsAllOffenders ==
    C12_Validated =>
        IF C12_MissingRequired # <<>>
        THEN /\ pc = "failed"
             /\ error = Raise("ValueError", "Missing required parameters", C12_MissingRequired)
             /\ C12_Untouched
        ELSE IF C12_BadPaths # <<>>
        THEN /\ pc = "failed"
             /\ error = Raise("ValueError", "Input path(s) not found or wrong type", C12_BadPaths)
             /\ C12_Untouched
        ELSE ~(pc = "failed" /\ error.exc # None
               /\ error.msg \in {"Missing required parameters",
                                 "Input path(s) not found or wrong type"})

\* The target directory of the render in progress.
C14_Target == _expand_render_into(DescEff, Ctx)

\* The positions of the executed items that wrote a file.
C14_Written == {i \in 1..Len(trace) : trace[i].step.action \in {"render", "copy"}}

\* The positions of the executed chmod items.
C14_Chmods == {i \in 1..Len(trace) : trace[i].step.action = "chmod"}

\* C14: every plan starts with a mkdir of the target directory, continues with
\* exactly one action per declared (source, destination) pair in declaration
\* order (render when the source name ends in .j2, copy otherwise), and ends
\* with a chmod of target/run_entry if and only if a run entry is declared;
\* execution follows this order, so the target directory exists before any
\* file is written and chmod runs only after all files are written, and does
\* nothing (and does not fail) when its target does not exist.
C14_PlanShapeAndOrder ==
    pc \in {"execute", "persist", "done", "failed"} =>
        LET n == Len(desc.render_files)
            last == plan[Len(plan)]
        IN  /\ Len(plan) = n + (IF desc.run_entry # None THEN 2 ELSE 1)
            /\ plan[1].action = "mkdir" /\ plan[1].dst = C14_Target
            /\ \A i \in 1..n :
                  LET src == desc.render_files[i][1]
                  IN  /\ plan[i + 1].src = src
                      /\ plan[i + 1].dst = C14_Target \o desc.render_files[i][2]
                      /\ plan[i + 1].action = IF src[Len(src)] = "j2" THEN "render" ELSE "copy"
            /\ desc.run_entry # None <=> last.action = "chmod"
            /\ last.action = "chmod" => last.dst = Append(C14_Target, desc.run_entry)
            /\ \A i \in 1..Len(trace) : i <= Len(plan) /\ trace[i].step = plan[i]
            /\ \A i \in C14_Written :
                  /\ trace[1].step.action = "mkdir"
                  /\ i > 1
                  /\ C14_Target \in fs.dirs
            /\ \A i \in C14_Chmods :
                  /\ i = Len(plan) /\ i = Len(trace)
                  /\ \A j \in 2..(i - 1) : plan[j].dst \in fs.files
                  /\ pc # "failed"
                  /\ ~Exists(snap.fs, plan[i].dst) /\ (\A j \in 2..(i - 1) : plan[j].dst # plan[i].dst)
                        => fs.exec = snap.fs.exec /\ ~Exists(fs, plan[i].dst)

\* A completed execution of a plan with a render, a copy and a chmod whose
\* target no item wrote.
C14_Witness ==
    /\ pc = "persist" /\ ~args.dry
    /\ Len(plan) = 4 /\ Len(trace) = 4
    /\ {trace[i].step.action : i \in 1..4} = {"mkdir", "render", "copy", "chmod"}
    /\ trace[4].step.dst \notin fs.files
    /\ fs.exec = snap.fs.exec

\* A file that holds a whole document.
C15_Complete(file) == file # NoFile /\ file.chunks = MaxChunks

C16_Invoked(stage) ==
    SelectSeq(trace, LAMBDA e : "hook" \in DOMAIN e /\ e.stage = stage)

\* The positions of the trace at which a plan action was executed.
C16_Steps == {i \in 1..Len(trace) : "step" \in DOMAIN trace[i]}

\* The positions of the trace at which a hook of the stage was invoked.
C16_Hooks(stage) == {i \in 1..Len(trace) : "hook" \in DOMAIN trace[i] /\ trace[i].stage = stage}

\* C16: the hooks of one lifecycle stage are invoked one at a time in
\* declaration order; when a hook raises, no later hook is invoked, the
\* exception propagates and the render or run is aborted (nothing is saved,
\* nothing more is done); within a render the pre_render hooks all finish
\* before the first plan action and the post_render hooks start only after
\* the last plan action.
C16_HooksInOrder ==
    (kind \in {"render", "run"} /\ desc # NoDesc) =>
        /\ \A stage \in HookStages :
              LET inv == C16_Invoked(stage)
              IN  /\ Len(inv) <= Len(desc.hooks[stage])
                  /\ \A i \in 1..Len(inv) : inv[i].hook = desc.hooks[stage][i]
                  /\ pc = stage => idx = Len(inv) + 1
        /\ (pc = "failed" /\ error.exc = "HookError") =>
              /\ trace # <<>>
              /\ "hook" \in DOMAIN trace[Len(trace)]
              /\ error.names = <<trace[Len(trace)].hook>>
              /\ project_yaml = snap.project_yaml
              /\ meta_yaml = snap.meta_yaml
              /\ trace[Len(trace)].stage = "pre_render" => C16_Steps = {}
              /\ trace[Len(trace)].stage = "pre_run" =>
                    \A i \in 1..Len(trace) : "process" \notin DOMAIN trace[i]
        /\ C16_Steps # {} => Len(C16_Invoked("pre_render")) = Len(desc.hooks["pre_render"])
        /\ \A i \in C16_Steps :
              /\ \A j \in C16_Hooks("pre_render") : j < i
              /\ \A j \in C16_Hooks("post_render") : i < j
        /\ C16_Hooks("post_render") # {} =>
              /\ plan # <<>>
              /\ {trace[i].step : i \in C16_Steps} = {plan[i] : i \in 1..Len(plan)}
              /\ Cardinality(C16_Steps) = Len(plan)

\* A run whose second pre_run hook raised after the first returned.
C16_Witness ==
    /\ kind = "run" /\ pc = "failed" /\ error.exc = "HookError"
    /\ Len(C16_Invoked("pre_run")) = 2
    /\ Len(trace) = 2

\* The items a key of the descriptor file lists, none when it is absent.
C17_Items(v) == IF v.kind = "list" THEN v.items ELSE <<>>

\* The dependency list a descriptor file declares.
C17_Declared(data) ==
    IF C17_Items(data.required_templates) # <<>> THEN C17_Items(data.required_templates)
    ELSE C17_Items(data.requires)

\* C17: load returns required_templates equal to the declared dependency list
\* (key required_templates, or requires when the first is absent or empty) and
\* tools_required / tools_optional taken only from the tools section (a bare
\* list is all required, a mapping gives required and optional); declaring
\* tools in either form never changes required_templates.
C17_IndependentNormalizations ==
    (fn_in.fn = "load" /\ fn_out # NotCalled) =>
        LET data == fn_in.data
        IN  /\ fn_out.required_templates = C17_Declared(data)
            /\ fn_out.tools_required =
                  IF data.tools.kind = "dict" THEN C17_Items(data.tools.required)
                  ELSE C17_Items(data.tools)
            /\ fn_out.tools_optional =
                  IF data.tools.kind = "dict" THEN C17_Items(data.tools.optional) ELSE <<>>

\* A workflow run against a project that reached the execution phase and is over.
C18_Executed ==
    /\ kind = "workflow_run" /\ ~args.adhoc
    /\ pc \in {"done", "failed"}
    /\ wf_run # NoRun

\* The pre_run hooks, the entry process and the post_run hooks all succeeded.
C18_AllSucceeded ==
    /\ \A i \in 1..Len(trace) : "hook" \in DOMAIN trace[i] => trace[i].outcome = "ok"
    /\ \E i \in 1..Len(trace) : "process" \in DOMAIN trace[i] /\ trace[i].exit_ok
    /\ \A stage \in {"pre_run", "post_run"} :
          Len(SelectSeq(trace, LAMBDA e : "hook" \in DOMAIN e /\ e.stage = stage))
            = Len(desc.hooks[stage])

\* C18: every workflow run against a project that reaches the execution phase
\* appends exactly one run-history record to workflows[] and persists it; its
\* status is completed if and only if the pre_run hooks, the entry process and
\* the post_run hooks all succeeded, and otherwise failed with the error
\* recorded while the exception is re-raised; no persisted record has status
\* running, and templates[] is left unchanged.
C18_OneRecordPerRun ==
    /\ C18_Executed =>
          LET before == snap.project_yaml.workflows
              after == project_yaml.workflows
              rec == after[Len(after)]
          IN  /\ Len(after) = Len(before) + 1
              /\ SubSeq(after, 1, Len(before)) = before
              /\ rec.id = args.template_id
              /\ rec.status = "completed" <=> C18_AllSucceeded
              /\ C18_AllSucceeded => pc = "done"
              /\ ~C18_AllSucceeded =>
                    /\ rec.status = "failed"
                    /\ rec.error # Absent
                    /\ pc = "failed" /\ error = wf_run.raised
              /\ project_yaml.templates = snap.project_yaml.templates
    /\ kind \in {None, "workflow_run"} =>
          \A i \in 1..Len(project_yaml.workflows) : project_yaml.workflows[i].status # "running"

\* The form in which an ad-hoc render stores a resolved parameter: a path-like
\* value that is not yet a host string becomes host:/resolved/path, resolved
\* against the working directory; any other value is kept.
C19_Stored(k) ==
    IF k \in Declared(desc) /\ desc.params[k].exists # None /\ IsStr(final_params[k])
       /\ final_params[k] # "" /\ final_params[k] \notin {"h:/proj/in", "h:/work/in"}
    THEN "h:" \o PosixString(ResolvePath(final_params[k], Cwd))
    ELSE final_params[k]

\* C19: ad-hoc operations never touch a project document: a render, run or
\* publish called with an ad-hoc output directory neither reads nor writes
\* project.yaml, and a successful non-dry ad-hoc render writes a meta record
\* holding the source (bundle id, bundle version, template id) and the
\* resolved params in the output directory.
C19_AdhocLeavesProjectAlone ==
    (kind \in {"render", "run", "publish"} /\ args.adhoc) =>
        /\ project = NoneProject
        /\ project_yaml = snap.project_yaml
        /\ \A i \in SaveEvents : trace[i].save # "project.yaml"
        /\ (kind = "render" /\ pc = "done" /\ ~args.dry) =>
              /\ meta_yaml # NoMeta
              /\ meta_yaml.source = [brs_id |-> "brs", brs_version |-> "1",
                                     template_id |-> args.template_id]
              /\ \A k \in ParamNames : meta_yaml.params[k] = C19_Stored(k)
              /\ trace[Len(trace)] = [save |-> "bpm.meta.yaml"]
              /\ AdhocOut \in fs.dirs

\* A successful ad-hoc render of a template with a path parameter, in a
\* project directory whose document holds entries.
C19_Witness ==
    /\ kind = "render" /\ args.adhoc /\ ~args.dry /\ pc = "done"
    /\ args.template_id = "tb"
    /\ meta_yaml # NoMeta /\ meta_yaml.params["p"] = "h:/work/in"
    /\ project_yaml.templates # <<>>

\* Process p saved after q, having loaded before q saved.
C20_Overtook(p, q) ==
    /\ p # q
    /\ procs[p].pc = "done" /\ procs[q].pc = "done"
    /\ procs[p].saved_at > procs[q].saved_at
    /\ procs[p].loaded_at < procs[q].saved_at

\* C20: concurrent operations on one project are not serialized: each loads
\* the document, changes its own copy and saves it, and no lock stands in the
\* way, so the document on disk is always the copy of the last process that
\* saved, and when that process loaded before another one saved, the final
\* document lacks the other's change (lost update).
C20_NoSerialization ==
    \A p \in Processes :
        (procs[p].pc = "done" /\ procs[p].saved_at = SavesDone) =>
            /\ project_yaml = procs[p].copy
            /\ \A q \in Processes :
                  (C20_Overtook(p, q) /\ procs[q].id # procs[p].id
                   /\ \A r \in Processes :
                         (procs[r].pc = "done" /\ procs[r].id = procs[q].id) =>
                             procs[r].saved_at > procs[p].loaded_at) =>
                        ~HasEntry(project_yaml, procs[q].id)

\* Two interleaved renders of different instance ids are over and the final
\* document holds the entry of one of them only.
C20_Witness ==
    \E p, q \in Processes :
        /\ C20_Overtook(p, q)
        /\ procs[p].id = "ta" /\ procs[q].id = "x"
        /\ HasEntry(project_yaml, "ta") /\ ~HasEntry(project_yaml, "x")
        /\ Len(project_yaml.templates) = 1

\* The step is the final save of a project-mode run.
C21_FinalSave ==
    kind = "run" /\ ~args.adhoc /\ pc = "persist" /\ pc' = "done"

C22_RootFirstDuringCall ==
    /\ calling.pc \in {"import", "invoke"} =>
          Len(sys_path) > 0 /\ sys_path[1] = brs_root
    /\ calling.pc \in {"returned", "raised"} => sys_path = calling.before

\* meta.get("status"), a missing status counting as active.
C23_MetaStatus ==
    IF meta_yaml.status = Absent THEN "active" ELSE meta_yaml.status

\* C23: the ad-hoc meta record behaves as a single-entry project document:
\* after every sequence of render, run and publish operations on one template,
\* the record's params, published map and status equal those of the instance
\* entry the same sequence produces in project mode (a missing status
\* counting as active).
C23_MetaRefinesEntry ==
    /\ meta_yaml = NoMeta <=> ~HasEntry(project_yaml, "ta")
    /\ meta_yaml # NoMeta =>
          /\ meta_yaml.params = EntryOf(project_yaml, "ta").params
          /\ meta_yaml.published = EntryOf(project_yaml, "ta").published
          /\ C23_MetaStatus = EntryOf(project_yaml, "ta").status

\* The position of a project status in ProjectState.
C24_Rank(status) ==
    CHOOSE i \in 1..Len(ProjectState) : ProjectState[i] = status

C25_CacheAlwaysComplete ==
    store.cache \in {CachedVersion, SrcVersion}

\* The updates inside the copy-and-swap section.
C26_Inside(st) == {p \in Processes : st.upd[p].pc \in CopyAndSwap}

\* At most one update is inside the section, and the lock exists exactly
\* while one is: it is gone once the holder has returned or raised.
C26_OneHolder(st) ==
    /\ Cardinality(C26_Inside(st)) <= 1
    /\ st.lock <=> C26_Inside(st) # {}

\* An update that finds the lock taken raises Busy and leaves the cache, the
\* backup, the temporary directories and the lock as they are.
C26_RefusedTouchesNothing ==
    \A p \in Processes :
        (store.upd[p].pc = "acquire" /\ store'.upd[p].pc # "acquire" /\ store.lock) =>
            /\ store'.upd[p].pc = "raised" /\ store'.upd[p].err = Busy
            /\ store'.cache = store.cache /\ store'.bak = store.bak
            /\ store'.tmp = store.tmp /\ store'.lock = store.lock

\* C26: at most one update of a store id is inside the copy-and-swap section
\* at any time: a second update that arrives while the lock is held, and ends
\* before it is released, fails with "Another update is in progress for this
\* store" without touching the cache, and the lock is released whenever the
\* holding update returns or raises.
C26_SecondUpdateFails ==
    [][/\ C26_OneHolder(store')
       /\ C26_RefusedTouchesNothing
       /\ \A p \in Processes :
             (store'.upd[p].while_locked /\ store'.upd[p].pc \in {"returned", "raised"}) =>
                 store'.upd[p].err = Busy]_vars

\* C26 amended: at most one update is inside the copy-and-swap section at any
\* time; an update that reaches _acquire_lock while the lock is held raises
\* "Another update is in progress for this store" without touching the cache,
\* the backup, the temporary directories or the lock; and the lock is
\* released whenever the holding update returns or raises.
C26_OneUpdateInSection ==
    [][C26_OneHolder(store') /\ C26_RefusedTouchesNothing]_vars

\* One update is inside the section, having moved the cache away, and the
\* other one was refused at the lock.
C26_Witness ==
    \E p, q \in Processes :
        /\ store.upd[p].pc = "to_dest"
        /\ store.upd[q].pc = "raised" /\ store.upd[q].err = Busy

\* C27: even when two processes save the same project document concurrently,
\* every read of the document returns one complete document written by one
\* of them (or the previous one), never a truncated document or a mix of the
\* two writes.
C27_ReadsOneCompleteDocument ==
    \E doc \in 0..MaxProcs : disk.inodes[disk.target] = Complete(doc)

C29_PathRoundTrip ==
    fn_out # NotCalled => fn_out.local = fn_out.validated

\* The operation in progress is a project-mode re-render, without CLI
\* parameters, of an instance an earlier render of the same template stored.
C30_ReRender ==
    /\ kind = "render" /\ ~args.adhoc
    /\ args.cli = Cli(Absent, Absent)
    /\ HasEntry(snap.project_yaml, InstanceId(args))
    /\ EntryOf(snap.project_yaml, InstanceId(args)).source_template = args.template_id

\* C30: render is idempotent on stored state: re-rendering an existing
\* instance with no CLI parameters, the bundle and the filesystem unchanged,
\* gets through parameter resolution and path validation as the first render
\* did, and when it has persisted the entry's params equal what the first
\* render stored, host-aware values included.
C30_ReRenderIdempotent ==
    C30_ReRender =>
        /\ pc = "failed" => error.exc # "ValueError"
        /\ (pc = "done" /\ ~args.dry) =>
              EntryOf(project_yaml, InstanceId(args)).params =
                  EntryOf(snap.project_yaml, InstanceId(args)).params

====
